---------------------------- MODULE Spec2Model ----------------------------
(***************************************************************************)
(* A model of the vector composition engine of PcbDraw (src/pcbdraw/plot.py)*)
(*                                                                         *)
(*  - the contour stitcher, get_board_polygon, with SvgPathItem            *)
(*    (specification Spec);                                                *)
(*  - the transform engine, to_trans_matrix (specification TransSpec);     *)
(*  - the position of a node under a stop ancestor, element_position and   *)
(*    collect_transformation (specification PosSpec);                      *)
(*  - the component placement engine, PlotComponents and PlotPlaceholders  *)
(*    as the command line tool runs them (specification CompSpec);         *)
(*  - the resistance parser, read_resistance of src/pcbdraw/unit.py        *)
(*    (specification ResSpec).                                             *)
(*                                                                         *)
(* Coordinates are integers: on integers the float arithmetic of the code  *)
(* (differences, squares, sums, comparisons) is exact in double precision  *)
(* for the magnitudes used here.                                           *)
(***************************************************************************)
EXTENDS Integers, Sequences, FiniteSets, TLC

VARIABLES
    \* ---- get_board_polygon ----
    svg_elements,   \* the input: the plotted Edge.Cuts items, in document order
    elements,       \* the pool of SvgPathItem still to be stitched
    outline,        \* the chain under construction
    size,           \* len(outline) at the start of the last inner iteration
    path,           \* the "d" attribute built so far, as a list of path commands
    chains,         \* history: the outlines formatted into path so far
    matched,        \* history: which of the four checks attached last (0: none)
    pc,             \* position in get_board_polygon
    \* ---- to_trans_matrix ----
    transform,      \* the transform attribute text (a token list) or None
    trans,          \* the operator texts found by re.findall
    m,              \* the matrix accumulated so far
    tpc,            \* position in to_trans_matrix
    \* ---- element_position / collect_transformation ----
    nodes,          \* the chain of elements from the document root down to the element
    root,           \* the stop ancestor: an index into nodes, or None
    cur,            \* the element of the current call of collect_transformation
    cm,             \* m of collect_transformation
    position,       \* what element_position returns
    ppc,            \* position in element_position
    \* ---- PlotComponents / PlotPlaceholders under ui.plot ----
    board,          \* board.GetFootprints(), in board order
    library,        \* the artwork files of the libraries
    options,        \* the command line options
    prefix,         \* PlotComponents._prefix
    used_components,\* PlotComponents._used_components
    comp_cont,      \* the children of the component container
    warnings,       \* the calls of yield_warning so far: the tags
    triggered,      \* WarningStderrReporter.triggered
    unique_counter, \* PcbPlotter._unique_counter
    loads,          \* history: the artwork files read so far, and for which value
    walk,           \* the index of the next footprint of the running walk
    cpc,            \* position in ui.plot
    \* ---- read_resistance ----
    value,          \* the argument
    p_value,        \* the text after erase, strip and replace
    numerical_value,\* the Decimal computed, or None
    rpc,             \* position in read_resistance
    \* ---- PcbPlotter.execute_plot_plan ----
    to_plot,        \* the plot plan: the name and the layers of each PlotAction
    faults,         \* where the engine and a callback raise (0: nowhere)
    scratch,        \* the scratch directories that exist
    tmp,            \* the directory of the running execution, or None
    files,          \* the files of tmp: name, layers plotted, and by which action
    calls,          \* history: the callback invocations of this execution
    ai,             \* the index of the action of the running loop
    executions,     \* the executions of the plan started so far
    xpc,             \* position in execute_plot_plan
    \* ---- RenderAction.execute ----
    viewer,         \* the state of the 3D viewer window
    plan,           \* the RenderAction being executed, or None
    before,         \* history: the viewer when execute was called
    shots,          \* the screenshots of this execute: substrate (if any), image
    renders,        \* the actions executed so far
    vpc,             \* position in RenderAction.execute
    \* ---- populate: Renderer ----
    initial_components,\* the components given to Renderer
    heap,           \* the values of the list objects, by reference
    visited_components,\* reference of the list of visited components
    active_components,\* reference of the list of the last directive
    active_side,    \* the side of the last directive
    items,          \* the items finished
    current_item,   \* the item being filled; None is [type |-> "None"]
    directives,     \* history: the directives seen
    recorded,       \* history: where each step was put, and after how many directives
    events,         \* the calls of the renderer's methods so far
    gpc,             \* position in parse_content
    \* ---- PcbPlotter.plot ----
    style,          \* the style: highlight-on-top
    plot_plan,      \* the plotters: the container and the ids of the fragment of each
    _unique_counter,\* PcbPlotter._unique_counter
    document,       \* the document of the running plot(), or None
    loaded,         \* history: the prefixed ids of each load of the running plot()
    returned,       \* history: the documents returned
    fi,             \* the index of the plotter to render
    plots,          \* the calls of plot() so far
    fpc             \* position in plot()

stitchVars == <<svg_elements, elements, outline, size, path, chains, matched, pc>>
transVars  == <<transform, trans, m, tpc>>
posVars    == <<nodes, root, cur, cm, position, ppc>>
compVars   == <<board, library, options, prefix, used_components, comp_cont,
                warnings, triggered, unique_counter, loads, walk, cpc>>
resVars    == <<value, p_value, numerical_value, rpc>>
planVars   == <<to_plot, faults, scratch, tmp, files, calls, ai, executions, xpc>>
viewerVars == <<viewer, plan, before, shots, renders, vpc>>
guideVars  == <<initial_components, heap, visited_components, active_components, active_side, items, current_item, directives, recorded, events, gpc>>
facadeVars == <<style, plot_plan, _unique_counter, document, loaded, returned, fi, plots, fpc>>
vars       == <<svg_elements, elements, outline, size, path, chains, matched, pc,
                transform, trans, m, tpc,
                nodes, root, cur, cm, position, ppc,
                board, library, options, prefix, used_components, comp_cont,
                warnings, triggered, unique_counter, loads, walk, cpc,
                value, p_value, numerical_value, rpc,
                to_plot, faults, scratch, tmp, files, calls, ai, executions, xpc,
                viewer, plan, before, shots, renders, vpc,
                initial_components, heap, visited_components, active_components, active_side, items, current_item, directives, recorded, events, gpc,
                style, plot_plan, _unique_counter, document, loaded, returned, fi, plots, fpc>>

\* The variables of the parts of the program that are not running: all but
\* the part s.
Idle(s) ==
    /\ IF s = "stitch" THEN TRUE
       ELSE /\ svg_elements = <<>>
            /\ elements = <<>>
            /\ outline = <<>>
            /\ size = 0
            /\ path = <<>>
            /\ chains = <<>>
            /\ matched = 0
            /\ pc = "idle"
    /\ IF s = "trans" THEN TRUE
       ELSE /\ transform = <<>>
            /\ trans = <<>>
            /\ m = <<>>
            /\ tpc = "idle"
    /\ IF s = "pos" THEN TRUE
       ELSE /\ nodes = <<>>
            /\ root = 0
            /\ cur = 0
            /\ cm = <<>>
            /\ position = <<>>
            /\ ppc = "idle"
    /\ IF s = "comp" THEN TRUE
       ELSE /\ board = <<>>
            /\ library = <<>>
            /\ options = <<>>
            /\ prefix = <<>>
            /\ used_components = <<>>
            /\ comp_cont = <<>>
            /\ warnings = <<>>
            /\ triggered = FALSE
            /\ unique_counter = 0
            /\ loads = <<>>
            /\ walk = 0
            /\ cpc = "idle"
    /\ IF s = "res" THEN TRUE
       ELSE /\ value = <<>>
            /\ p_value = <<>>
            /\ numerical_value = <<>>
            /\ rpc = "idle"
    /\ IF s = "plan" THEN TRUE
       ELSE /\ to_plot = <<>>
            /\ faults = <<>>
            /\ scratch = {}
            /\ tmp = 0
            /\ files = {}
            /\ calls = <<>>
            /\ ai = 0
            /\ executions = 0
            /\ xpc = "idle"
    /\ IF s = "viewer" THEN TRUE
       ELSE /\ viewer = <<>>
            /\ plan = 0
            /\ before = 0
            /\ shots = <<>>
            /\ renders = 0
            /\ vpc = "idle"
    /\ IF s = "guide" THEN TRUE
       ELSE /\ initial_components = <<>>
            /\ heap = <<>>
            /\ visited_components = 0
            /\ active_components = 0
            /\ active_side = ""
            /\ items = <<>>
            /\ current_item = 0
            /\ directives = <<>>
            /\ recorded = <<>>
            /\ events = 0
            /\ gpc = "idle"
    /\ IF s = "facade" THEN TRUE
       ELSE /\ style = <<>>
            /\ plot_plan = <<>>
            /\ _unique_counter = 0
            /\ document = 0
            /\ loaded = <<>>
            /\ returned = <<>>
            /\ fi = 0
            /\ plots = 0
            /\ fpc = "idle"

(***************************************************************************)
(*                              BOUNDS                                     *)
(***************************************************************************)
\* The longest list of arbitrary items given to the stitcher.
MaxItems == 3

(***************************************************************************)
(*                     SvgPathItem  (plot.py 81-126)                       *)
(***************************************************************************)
\* The threshold of SvgPathItem.is_same.
Tolerance == 100

\* A wider threshold: what is_same would be with the tolerance misjudged.
is_same_wide(p1, p2) ==
    LET dx == p1[1] - p2[1]
        dy == p1[2] - p2[2]
    IN  dx * dx + dy * dy <= (2 * Tolerance) * (2 * Tolerance)

\* math.sqrt(dx*dx+dy*dy) < 100; sqrt is monotone, so the squares are compared.
is_same(p1, p2) ==
    LET dx == p1[1] - p2[1]
        dy == p1[2] - p2[2]
    IN  dx * dx + dy * dy < Tolerance * Tolerance

\* SvgPathItem.__init__ on a valid single-segment path "M sx sy L ex ey" or
\* "M sx sy A rx ry rot large sweep ex ey". args is <<>> (None) for a line.
\* args4_int: whether args[4] holds a Python int (set by flip) rather than the
\* float that parsing produced.  id: the item's index in the input (history).
SvgPathItem(item, idx) ==
    [start |-> item.start, end |-> item.end, type |-> item.type,
     args |-> item.args, args4_int |-> FALSE, id |-> idx]



\* SvgPathItem.flip
flip(e) ==
    IF e.type = "A"
    THEN [e EXCEPT !.start = e.end, !.end = e.start,
                   !.args = [e.args EXCEPT ![5] = IF e.args[5] < 1 THEN 1 ELSE 0],
                   !.args4_int = TRUE]
    ELSE [e EXCEPT !.start = e.end, !.end = e.start]

\* str(x).rstrip('0').rstrip('.') of one arc argument: a float prints as its
\* number, the int 0 prints as "0" and is stripped to the empty string.
\* A printed argument is <<x>>, the empty string is <<>>.
\* SvgPathItem.format: the commands it adds to the path text.
format(e, first) ==
    LET FormatArg(x, isInt) == IF isInt /\ x = 0 THEN <<>> ELSE <<x>>
    IN
    (IF first THEN << [cmd |-> "M", args |-> <<>>, to |-> e.start] >> ELSE <<>>)
    \o << [cmd  |-> e.type,
           args |-> IF e.args # <<>>
                    THEN [k \in 1..5 |-> FormatArg(e.args[k], k = 5 /\ e.args4_int)]
                    ELSE <<>>,
           to   |-> e.end] >>

(***************************************************************************)
(*                 distances  (plot.py 131-139)                            *)
(***************************************************************************)
pseudo_distance(a, b) ==
    (a[1] - b[1]) * (a[1] - b[1]) + (a[2] - b[2]) * (a[2] - b[2])


\* np.argmin of the pseudo distances: the first index of a minimum (1-based).
\* On an empty list np.argmin raises; 0 stands for that.
get_closest(reference, elems) ==
    IF Len(elems) = 0 THEN 0
    ELSE CHOOSE i \in 1..Len(elems) :
            /\ \A j \in 1..Len(elems) :
                  pseudo_distance(reference, elems[i]) <= pseudo_distance(reference, elems[j])
            /\ \A j \in 1..(i - 1) :
                  pseudo_distance(reference, elems[j]) > pseudo_distance(reference, elems[i])

(***************************************************************************)
(*                 get_board_polygon  (plot.py 403-462)                    *)
(***************************************************************************)
RECURSIVE ItemsWithTag(_, _, _)
\* The items of s at the indices k..Len(s) that satisfy the tag, as SvgPathItems.
ItemsWithTag(s, k, tag) ==
    IF k > Len(s) THEN <<>>
    ELSE (IF s[k].tag = tag THEN <<SvgPathItem(s[k], k)>> ELSE <<>>)
         \o ItemsWithTag(s, k + 1, tag)

\* A loader that offers the circles to the stitcher too.
ParseElementsWithCircles(elems) ==
    [k \in 1..Len(elems) |->
        IF elems[k].tag = "path" THEN SvgPathItem(elems[k], k)
        ELSE [start |-> <<elems[k].cx - elems[k].r, elems[k].cy>>,
              end   |-> <<elems[k].cx + elems[k].r, elems[k].cy>>,
              type  |-> "A",
              args  |-> <<elems[k].r, elems[k].r, 0, 1, 0>>,
              args4_int |-> FALSE, id |-> k]]

\* Lines 410-413: every <path> becomes an SvgPathItem, in document order.
ParseElements(elems) == ItemsWithTag(elems, 1, "path")

RECURSIVE CirclesPath(_, _)
\* Lines 410-419: the circles' paths, in document order, from index k on.
\* Lines 414-419 write one circle as a path of its own,
\* " M cx cy m-r 0 a r r 0 1 0 2r 0 a r r 0 1 0 -2r 0 ".
CirclesPath(elems, k) ==
    LET CirclePath(c) ==
            << [cmd |-> "M", args |-> <<>>, to |-> <<c.cx, c.cy>>],
               [cmd |-> "m", args |-> <<>>, to |-> <<0 - c.r, 0>>],
               [cmd |-> "a", args |-> << <<c.r>>, <<c.r>>, <<0>>, <<1>>, <<0>> >>,
                to |-> <<2 * c.r, 0>>],
               [cmd |-> "a", args |-> << <<c.r>>, <<c.r>>, <<0>>, <<1>>, <<0>> >>,
                to |-> <<0 - 2 * c.r, 0>>] >>
    IN  IF k > Len(elems) THEN <<>>
        ELSE (IF elems[k].tag = "circle" THEN CirclePath(elems[k]) ELSE <<>>)
             \o CirclesPath(elems, k + 1)

RECURSIVE FormatOutline(_, _)
\* Lines 457-460: the outline's items formatted, the first one with its M.
FormatOutline(o, first) ==
    IF o = <<>> THEN <<>>
    ELSE format(Head(o), first) \o FormatOutline(Tail(o), FALSE)

\* A del that always takes the last element.
RemoveLast(s, i) == SubSeq(s, 1, Len(s) - 1)

\* del elements[i]
Remove(s, i) == SubSeq(s, 1, i - 1) \o SubSeq(s, i + 1, Len(s))

Starts(s) == [k \in 1..Len(s) |-> s[k].start]
Ends(s)   == [k \in 1..Len(s) |-> s[k].end]

\* A loop that goes on for as long as the outline grew.
InnerLoopCondNoGuard == size # Len(outline)

\* Line 426: while size != len(outline) and len(elements) > 0
InnerLoopCond == size # Len(outline) /\ Len(elements) > 0

\* Lines 429-430, 435-436, 443-444, 449-450: the candidate of each of the four
\* checks and whether it is within tolerance.  (0: get_closest raised.)
Cand1 == get_closest(outline[1].start, Ends(elements))
Cand2 == get_closest(outline[1].start, Starts(elements))
Cand3 == get_closest(outline[Len(outline)].end, Starts(elements))
Cand4 == get_closest(outline[Len(outline)].end, Ends(elements))
Check1 == Cand1 # 0 /\ is_same(outline[1].start, elements[Cand1].end)
Check2 == Cand2 # 0 /\ is_same(outline[1].start, elements[Cand2].start)
Check3 == Cand3 # 0 /\ is_same(outline[Len(outline)].end, elements[Cand3].start)
Check4 == Cand4 # 0 /\ is_same(outline[Len(outline)].end, elements[Cand4].end)

\* ---- the inputs ----
\* Points on a line with gaps below, at and above the tolerance:
\* 0-60: 60 (below), 260-360: 100 (exactly the tolerance), 60-260: 200 (twice
\* the tolerance), the others more.
LineItem(s, e) ==
    [tag |-> "path", start |-> s, end |-> e, type |-> "L", args |-> <<>>,
     cx |-> 0, cy |-> 0, r |-> 0]

\* Every sequence of at most MaxItems items: lines between the points, arcs
\* between points farther apart than the tolerance, and one circle.
BagInputs ==
    LET Pts == { <<0, 0>>, <<60, 0>>, <<260, 0>>, <<360, 0>> }
        ArcItem(s, e, sweep) ==
            [tag |-> "path", start |-> s, end |-> e, type |-> "A",
             args |-> <<150, 150, 0, 0, sweep>>, cx |-> 0, cy |-> 0, r |-> 0]
        CircleItem(x, y, rad) ==
            [tag |-> "circle", start |-> <<0, 0>>, end |-> <<0, 0>>, type |-> "L",
             args |-> <<>>, cx |-> x, cy |-> y, r |-> rad]
        ArcPairs == { << <<0, 0>>, <<260, 0>> >>, << <<260, 0>>, <<60, 0>> >> }
        Items ==
            { LineItem(p[1], p[2]) : p \in { q \in Pts \X Pts : q[1] # q[2] } } \cup
            { ArcItem(p[1], p[2], sw) : p \in ArcPairs, sw \in {0, 1} } \cup
            { CircleItem(60, 0, 25) }
    IN  UNION { [1..n -> Items] : n \in 0..MaxItems }

\* The four edges of the axis-parallel square of side s at the origin, each in
\* both directions.
SquareCorners(s) == << <<0, 0>>, <<s, 0>>, <<s, s>>, <<0, s>> >>
SquareEdges(s) ==
    { {SquareCorners(s)[k], SquareCorners(s)[(k % 4) + 1]} : k \in 1..4 }
Undirected(f) == {f.start, f.end}
\* Every ordering of the four edges, every direction of each.
SquareInputs ==
    LET SquareSides == {1, 150}
        DirectedSquareEdges(s) ==
            LET C == { SquareCorners(s)[k] : k \in 1..4 }
            IN  { LineItem(p[1], p[2]) :
                    p \in { q \in C \X C : {q[1], q[2]} \in SquareEdges(s) } }
    IN  UNION { { f \in [1..4 -> DirectedSquareEdges(s)] :
                    { Undirected(f[k]) : k \in 1..4 } = SquareEdges(s) } : s \in SquareSides }

Init ==
    /\ svg_elements \in SquareInputs \cup BagInputs
    /\ elements = <<>>
    /\ outline = <<>>
    /\ size = 0
    /\ path = <<>>
    /\ chains = <<>>
    /\ matched = 0
    /\ pc = "load"
    /\ Idle("stitch")

\* Lines 408-419
LoadElements ==
    /\ pc = "load"
    /\ elements' = ParseElements(svg_elements)
    /\ path' = CirclesPath(svg_elements, 1)
    /\ pc' = "outer"
    /\ UNCHANGED <<svg_elements, outline, size, chains, matched>>
    /\ UNCHANGED <<transVars, posVars, compVars, resVars, planVars, viewerVars, guideVars, facadeVars>>

\* Lines 420-424
SeedOutline ==
    /\ pc = "outer"
    /\ Len(elements) > 0
    /\ outline' = <<elements[1]>>
    /\ elements' = Tail(elements)
    /\ size' = 0
    /\ matched' = 0
    /\ pc' = "inner"
    /\ UNCHANGED <<svg_elements, path, chains>>
    /\ UNCHANGED <<transVars, posVars, compVars, resVars, planVars, viewerVars, guideVars, facadeVars>>

\* Lines 427-433: an element ends at the head of the outline.
ExtendHeadByEnd ==
    /\ pc = "inner"
    /\ InnerLoopCond
    /\ Check1
    /\ size' = Len(outline)
    /\ outline' = <<elements[Cand1]>> \o outline
    /\ elements' = Remove(elements, Cand1)
    /\ matched' = 1
    /\ UNCHANGED <<svg_elements, path, chains, pc>>
    /\ UNCHANGED <<transVars, posVars, compVars, resVars, planVars, viewerVars, guideVars, facadeVars>>

\* Lines 435-441: an element starts at the head of the outline.
ExtendHeadByStart ==
    /\ pc = "inner"
    /\ InnerLoopCond
    /\ ~Check1 /\ Check2
    /\ size' = Len(outline)
    /\ outline' = <<flip(elements[Cand2])>> \o outline
    /\ elements' = Remove(elements, Cand2)
    /\ matched' = 2
    /\ UNCHANGED <<svg_elements, path, chains, pc>>
    /\ UNCHANGED <<transVars, posVars, compVars, resVars, planVars, viewerVars, guideVars, facadeVars>>

\* Lines 443-447: an element starts at the tail of the outline
\* (outline.insert(0, ...), as in the code).
ExtendTailByStart ==
    /\ pc = "inner"
    /\ InnerLoopCond
    /\ ~Check1 /\ ~Check2 /\ Check3
    /\ size' = Len(outline)
    /\ outline' = <<elements[Cand3]>> \o outline
    /\ elements' = Remove(elements, Cand3)
    /\ matched' = 3
    /\ UNCHANGED <<svg_elements, path, chains, pc>>
    /\ UNCHANGED <<transVars, posVars, compVars, resVars, planVars, viewerVars, guideVars, facadeVars>>

\* Lines 449-455: an element ends at the tail of the outline
\* (outline.insert(0, ...), as in the code).
ExtendTailByEnd ==
    /\ pc = "inner"
    /\ InnerLoopCond
    /\ ~Check1 /\ ~Check2 /\ ~Check3 /\ Check4
    /\ size' = Len(outline)
    /\ outline' = <<flip(elements[Cand4])>> \o outline
    /\ elements' = Remove(elements, Cand4)
    /\ matched' = 4
    /\ UNCHANGED <<svg_elements, path, chains, pc>>
    /\ UNCHANGED <<transVars, posVars, compVars, resVars, planVars, viewerVars, guideVars, facadeVars>>

\* Lines 427-455 when no check attaches anything: only size is updated.
\* With an empty pool the first get_closest raises (np.argmin of an empty
\* list), which ends get_board_polygon.
ExtendNothing ==
    /\ pc = "inner"
    /\ InnerLoopCond
    /\ ~Check1 /\ ~Check2 /\ ~Check3 /\ ~Check4
    /\ size' = Len(outline)
    /\ matched' = 0
    /\ pc' = IF Len(elements) = 0 THEN "raised" ELSE "inner"
    /\ UNCHANGED <<svg_elements, elements, outline, path, chains>>
    /\ UNCHANGED <<transVars, posVars, compVars, resVars, planVars, viewerVars, guideVars, facadeVars>>

\* Lines 456-460: the inner loop is over, the outline goes to the path.
EmitOutline ==
    /\ pc = "inner"
    /\ ~InnerLoopCond
    /\ path' = path \o FormatOutline(outline, TRUE)
    /\ chains' = Append(chains, outline)
    /\ pc' = "outer"
    /\ UNCHANGED <<svg_elements, elements, outline, size, matched>>
    /\ UNCHANGED <<transVars, posVars, compVars, resVars, planVars, viewerVars, guideVars, facadeVars>>

\* Lines 420, 461-462: the pool is empty, the path element is returned.
ReturnPolygon ==
    /\ pc = "outer"
    /\ Len(elements) = 0
    /\ pc' = "done"
    /\ UNCHANGED <<svg_elements, elements, outline, size, path, chains, matched>>
    /\ UNCHANGED <<transVars, posVars, compVars, resVars, planVars, viewerVars, guideVars, facadeVars>>

Next ==
    \/ LoadElements
    \/ SeedOutline
    \/ ExtendHeadByEnd
    \/ ExtendHeadByStart
    \/ ExtendTailByStart
    \/ ExtendTailByEnd
    \/ ExtendNothing
    \/ EmitOutline
    \/ ReturnPolygon

Spec == Init /\ [][Next]_vars


(***************************************************************************)
(*                 PROPERTIES OF THE CONTOUR STITCHER                      *)
(***************************************************************************)
PathItemsOf(elems) == { k \in 1..Len(elems) : elems[k].tag = "path" }
CircleItemsOf(elems) == { k \in 1..Len(elems) : elems[k].tag = "circle" }
IsSquareInput(s) ==
    /\ Len(svg_elements) = 4
    /\ \A k \in 1..4 : svg_elements[k].tag = "path" /\ svg_elements[k].type = "L"
    /\ { Undirected(svg_elements[k]) : k \in 1..4 } = SquareEdges(s)
\* The sub-paths of a path text: one per "M".
MoveCount(p) == Cardinality({ k \in 1..Len(p) : p[k].cmd = "M" })
\* A chain of four fragments that goes round the square of side s, each
\* fragment starting where the one before ended, the last ending where the
\* first started.
ClosedSquareChain(c, s) ==
    /\ Len(c) = 4
    /\ \A k \in 1..3 : c[k].end = c[k + 1].start
    /\ c[4].end = c[1].start
    /\ { Undirected(c[k]) : k \in 1..4 } = SquareEdges(s)
\* A path text "M p0 L p1 L p2 L p3 L p4" whose four drawn segments are the
\* four edges of the square of side s and which ends where it starts.
DrawsSquare(p, s) ==
    /\ Len(p) = 5
    /\ p[1].cmd = "M"
    /\ \A k \in 2..5 : p[k].cmd = "L"
    /\ { {p[k].to, p[k + 1].to} : k \in 1..4 } = SquareEdges(s)
    /\ p[5].to = p[1].to

\* C1: the four edges of a unit square, in any order and any direction, are
\* stitched into one chain of 4 segments that goes round the square.
C1_UnitSquareIsClosed ==
    (pc = "done" /\ IsSquareInput(1)) =>
        /\ Len(chains) = 1
        /\ ClosedSquareChain(chains[1], 1)
        /\ DrawsSquare(path, 1)

\* The same for the square whose side (150) is above the tolerance: there the
\* stitcher closes the square for every order and direction.
LargeSquareIsClosed ==
    (pc = "done" /\ IsSquareInput(150)) =>
        /\ Len(chains) = 1
        /\ ClosedSquareChain(chains[1], 150)
        /\ DrawsSquare(path, 150)

IsTwoFragments ==
    /\ Len(svg_elements) = 2
    /\ svg_elements[1].tag = "path"
    /\ svg_elements[2].tag = "path"
\* The squared distance of the nearest endpoints of the two input fragments.
NearestGap2 ==
    LET a == svg_elements[1]
        b == svg_elements[2]
        D == { pseudo_distance(p, q) : p \in {a.start, a.end}, q \in {b.start, b.end} }
    IN  CHOOSE d \in D : \A e \in D : d <= e

\* C2: two fragments whose nearest endpoints are less than the tolerance
\* apart end in one chain; two fragments whose nearest endpoints are twice the
\* tolerance apart end in two chains.
C2_NearJoinsFarDoesNot ==
    (pc = "done" /\ IsTwoFragments) =>
        /\ NearestGap2 < Tolerance * Tolerance =>
              Len(chains) = 1 /\ Len(chains[1]) = 2 /\ MoveCount(path) = 1
        /\ NearestGap2 = (2 * Tolerance) * (2 * Tolerance) =>
              Len(chains) = 2 /\ MoveCount(path) = 2

\* Two fragments with a gap that is neither zero nor as large as the
\* tolerance, joined.
C2_Witness ==
    /\ pc = "done"
    /\ IsTwoFragments
    /\ NearestGap2 > 0
    /\ NearestGap2 < Tolerance * Tolerance
    /\ Len(chains) = 1

MinOf(a, b) == IF a <= b THEN a ELSE b
\* The squared distance from point p to the nearer endpoint of fragment e.
EndpointGap2(p, e) == MinOf(pseudo_distance(p, e.start), pseudo_distance(p, e.end))

\* C3: whenever a fragment is attached, it is, among the fragments of the
\* pool with an endpoint within tolerance of the open end it is attached for,
\* one whose endpoint is nearest to that open end.
C3_AttachesTheClosest ==
    [][ (pc = "inner" /\ Len(outline') = Len(outline) + 1) =>
          LET open == IF matched' \in {1, 2} THEN outline[1].start
                      ELSE outline[Len(outline)].end
              att  == CHOOSE k \in 1..Len(elements) : elements[k].id = outline'[1].id
          IN  \A k \in 1..Len(elements) :
                (is_same(open, elements[k].start) \/ is_same(open, elements[k].end))
                   => EndpointGap2(open, elements[att]) <= EndpointGap2(open, elements[k])
      ]_vars

\* C4: the stitcher never raises; an outline is emitted only when the pool is
\* empty or nothing in it matches an open end; at the end the pool is empty
\* and every input fragment is in a chain, each chain a sub-path of its own.
RECURSIVE SumLen(_)
SumLen(cs) == IF cs = <<>> THEN 0 ELSE Len(Head(cs)) + SumLen(Tail(cs))
C4_NeverRaises ==
    /\ pc # "raised"
    /\ (pc = "inner" /\ ~InnerLoopCond) =>
          (Len(elements) = 0 \/ ~(Check1 \/ Check2 \/ Check3 \/ Check4))
    /\ pc = "done" =>
          /\ Len(elements) = 0
          /\ \A c \in 1..Len(chains) : Len(chains[c]) >= 1
          /\ SumLen(chains) = Cardinality(PathItemsOf(svg_elements))
          /\ MoveCount(path) = Len(chains) + Cardinality(CircleItemsOf(svg_elements))

\* An input whose fragments do not all connect: more than one chain, one of
\* them a fragment that matched nothing.
C4_Witness ==
    /\ pc = "done"
    /\ Len(chains) >= 2
    /\ \E c \in 1..Len(chains) : Len(chains[c]) = 1
    /\ \E c \in 1..Len(chains) : Len(chains[c]) = 2

\* C5: a circle becomes one closed sub-path made of its own centre and
\* radius (a move to the centre, a move left by r, two half circles of radius r
\* right by 2r and back), the circles' sub-paths come first, no circle is ever
\* in the pool or in an outline, and a lone circle gives that sub-path alone.
IdsOf(s) == { s[k].id : k \in 1..Len(s) }
C5_CirclesAreVerbatim ==
    /\ IdsOf(elements) \cup IdsOf(outline) \subseteq PathItemsOf(svg_elements)
    /\ \A c \in 1..Len(chains) : IdsOf(chains[c]) \subseteq PathItemsOf(svg_elements)
    /\ pc \notin {"load", "idle"} =>
          LET cs == CircleItemsOf(svg_elements)
          IN  /\ Len(path) >= 4 * Cardinality(cs)
              /\ \A k \in cs :
                    LET n == Cardinality({ h \in cs : h < k })
                        c == svg_elements[k]
                    IN  /\ path[4 * n + 1].cmd = "M" /\ path[4 * n + 1].to = <<c.cx, c.cy>>
                        /\ path[4 * n + 2].cmd = "m" /\ path[4 * n + 2].to = <<0 - c.r, 0>>
                        /\ path[4 * n + 3].cmd = "a" /\ path[4 * n + 3].to = <<2 * c.r, 0>>
                        /\ path[4 * n + 4].cmd = "a" /\ path[4 * n + 4].to = <<0 - 2 * c.r, 0>>
                        /\ \A h \in {3, 4} :
                              path[4 * n + h].args = << <<c.r>>, <<c.r>>, <<0>>, <<1>>, <<0>> >>
    /\ (pc = "done" /\ Len(svg_elements) = 1 /\ svg_elements[1].tag = "circle") =>
          Len(path) = 4 /\ chains = <<>>

\* A circle among fragments that end within tolerance of its centre.
C5_Witness ==
    /\ pc = "done"
    /\ Len(svg_elements) = 3
    /\ svg_elements[2].tag = "circle"
    /\ svg_elements[1].tag = "path"
    /\ svg_elements[3].tag = "path"
    /\ is_same(<<svg_elements[2].cx, svg_elements[2].cy>>, svg_elements[1].end)
    /\ Len(chains) = 1

\* C28: every chain the stitcher emits is contiguous: in each pair of
\* consecutive fragments of the chain the later one starts within tolerance
\* of the end of the earlier one, whether the chain grew at its head or at
\* its tail.
C28_EmittedChainsAreContiguous ==
    \A c \in 1..Len(chains) :
        \A k \in 1..(Len(chains[c]) - 1) :
            is_same(chains[c][k].end, chains[c][k + 1].start)

\* The places (chain, index) of the emitted chains that hold the fragment i.
PlacesOf(i) ==
    { ck \in (1..Len(chains)) \X (1..Len(svg_elements)) :
        ck[2] <= Len(chains[ck[1]]) /\ chains[ck[1]][ck[2]].id = i }

\* At the return the pool is empty and every line or arc of the input is at
\* exactly one place of the emitted chains, as it was read or flipped.
Conserved ==
    pc = "done" =>
        /\ elements = <<>>
        /\ SumLen(chains) = Cardinality(PathItemsOf(svg_elements))
        /\ \A i \in PathItemsOf(svg_elements) :
              /\ Cardinality(PlacesOf(i)) = 1
              /\ \A ck \in PlacesOf(i) :
                    chains[ck[1]][ck[2]] \in
                        { SvgPathItem(svg_elements[i], i),
                          flip(SvgPathItem(svg_elements[i], i)) }

\* A number that every step of get_board_polygon decreases and that is
\* never below -2: three for each fragment of the pool, and the position in
\* the loops.
Measure ==
    CASE pc = "load"  -> 3 * Len(svg_elements) + 4
      [] pc = "outer" -> 3 * Len(elements) - 1
      [] pc = "inner" -> 3 * Len(elements) + (IF InnerLoopCond THEN 1 ELSE 0)
      [] OTHER        -> 0 - 2

\* C29: the stitcher conserves fragments: for every finite input it
\* terminates (every step decreases a bounded measure) with an empty pool,
\* and each line or arc of the input occurs in exactly one emitted chain
\* exactly once, possibly flipped, none dropped and none duplicated.
C29_FragmentsAreConserved ==
    /\ [](Conserved /\ Measure >= 0 - 2 /\ pc # "raised")
    /\ [][Measure' < Measure]_vars

\* Three fragments end in two chains, one of them flipped on the way.
C29_Witness ==
    /\ pc = "done"
    /\ Len(chains) = 2
    /\ SumLen(chains) = 3
    /\ \E c \in 1..2 : \E k \in 1..Len(chains[c]) : chains[c][k].args4_int
    /\ \E c \in 1..2 : \E k \in 1..Len(chains[c]) :
          chains[c][k] = flip(SvgPathItem(svg_elements[chains[c][k].id], chains[c][k].id))

(***************************************************************************)
(*                 to_trans_matrix  (plot.py 141-208)                      *)
(*                                                                         *)
(* The transform text is a list of tokens: a run of lower-case letters     *)
(* ("lc"), a run of upper-case letters ("uc"), "(" , ")", a number that    *)
(* float_re matches ("num") and a separator (blank or comma, "sep").       *)
(* Numbers are integers and angles are multiples of 45 degrees: the sine   *)
(* and cosine of a multiple of 90 degrees and the tangent of an odd        *)
(* multiple of 45 degrees differ from an integer by less than 1e-15, which *)
(* the float32 matrices of the code do not keep beside a non-zero entry.   *)
(***************************************************************************)
\* The most operator texts in one transform attribute.
MaxOps == 2

Lc(w)  == [k |-> "lc",  s |-> w,   v |-> 0]
LP     == [k |-> "(",   s |-> "(", v |-> 0]
RP     == [k |-> ")",   s |-> ")", v |-> 0]
Sep    == [k |-> "sep", s |-> " ", v |-> 0]

\* matrix(data): np.array(data, dtype=np.float32)
matrix(data) == data

Identity == matrix(<< <<1, 0, 0>>, <<0, 1, 0>>, <<0, 0, 1>> >>)

\* np.matmul on 3x3 matrices
matmul(a, b) ==
    [i \in 1..3 |-> [j \in 1..3 |-> a[i][1] * b[1][j] + a[i][2] * b[2][j] + a[i][3] * b[3][j]]]

\* A product taken in the other order.
ComposeReversed(acc, x) == matmul(x, acc)

\* m = np.matmul(m, matrix(...)): lines 161, 168, 175, 184, 188, 193, 199, 204
Compose(acc, x) == matmul(acc, x)

\* extract_arg: the n-th element (0-based) or the default
extract_arg(args, index, default) ==
    IF index >= Len(args) THEN default ELSE args[index + 1]

\* math.cos(math.radians(d)), math.sin(math.radians(d)) and
\* math.tan(math.radians(d)) at the angles of the model (see the header).
\* At 90 and 270 degrees the tangent is a huge finite float; the model's
\* inputs use the tangent only at odd multiples of 45 degrees and at 0.
Cos(d) == CASE d % 360 = 0 -> 1 [] d % 360 = 90 -> 0 [] d % 360 = 180 -> -1
            [] d % 360 = 270 -> 0 [] OTHER -> 0
Sin(d) == CASE d % 360 = 0 -> 0 [] d % 360 = 90 -> 1 [] d % 360 = 180 -> 0
            [] d % 360 = 270 -> -1 [] OTHER -> 0
Tan(d) == CASE d % 180 = 0 -> 0 [] d % 180 = 45 -> 1 [] d % 180 = 135 -> -1
            [] OTHER -> 0

\* The characters an operator name is made of: [a-z] in the pattern
\* r'[a-z]+?\(.*?\)' of line 156.
NameChars == {"lc"}


RECURSIVE RunEnd(_, _)
\* The last index of the run of name characters that starts at i.
RunEnd(text, i) ==
    IF i + 1 <= Len(text) /\ text[i + 1].k \in NameChars
    THEN RunEnd(text, i + 1) ELSE i

RECURSIVE ConcatNames(_, _, _)
ConcatNames(text, i, e) ==
    IF i > e THEN "" ELSE text[i].s \o ConcatNames(text, i + 1, e)

\* The index of the first ")" at or after i, or 0.
FirstClose(text, i) ==
    IF \E j \in i..Len(text) : text[j].k = ")"
    THEN CHOOSE j \in i..Len(text) :
            text[j].k = ")" /\ \A h \in i..(j - 1) : text[h].k # ")"
    ELSE 0

RECURSIVE NumsIn(_, _, _)
\* re.findall(float_re, args), as numbers: the numbers among text[i..j]
NumsIn(text, i, j) ==
    IF i > j THEN <<>>
    ELSE (IF text[i].k = "num" THEN <<text[i].v>> ELSE <<>>) \o NumsIn(text, i + 1, j)

RECURSIVE FindAll(_, _)
\* re.findall(r'[a-z]+?\(.*?\)', transform) from index i on (line 156): each
\* match is a run of name characters directly followed by "(" and goes to
\* the first ")" after it.  For each match: the text before its first "("
\* (op), the number of "(" in it (t.split('(') gives one part more) and the
\* numbers after the first "(" (line 159).
FindAll(text, i) ==
    IF i > Len(text) THEN <<>>
    ELSE IF text[i].k \notin NameChars THEN FindAll(text, i + 1)
    ELSE LET e == RunEnd(text, i)
             j == IF e + 1 <= Len(text) /\ text[e + 1].k = "("
                  THEN FirstClose(text, e + 2) ELSE 0
         IN  IF j = 0 THEN FindAll(text, e + 1)
             ELSE << [op     |-> ConcatNames(text, i, e),
                      nparen |-> Cardinality({h \in (e + 1)..j : text[h].k = "("}),
                      args   |-> NumsIn(text, e + 2, j)] >>
                  \o FindAll(text, j + 1)

\* What a failed step of the loop body yields.
Raised == <<>>

\* A rotation about a pivot that does not move back.
rotate_no_return(acc, args) ==
    IF Len(args) # 1
    THEN Compose(Compose(acc,
            matrix(<< <<1, 0, args[2]>>, <<0, 1, args[3]>>, <<0, 0, 1>> >>)),
            matrix(<< <<Cos(args[1]), 0 - Sin(args[1]), 0>>,
                      <<Sin(args[1]), Cos(args[1]), 0>>, <<0, 0, 1>> >>))
    ELSE Compose(acc,
            matrix(<< <<Cos(args[1]), 0 - Sin(args[1]), 0>>,
                      <<Sin(args[1]), Cos(args[1]), 0>>, <<0, 0, 1>> >>))

\* Lines 179-196: op == 'rotate', for args that do not make it raise.
rotate(acc, args) ==
    LET cosa == Cos(args[1])
        sina == Sin(args[1])
        m1 == IF Len(args) # 1
              THEN Compose(acc, matrix(<< <<1, 0, args[2]>>, <<0, 1, args[3]>>, <<0, 0, 1>> >>))
              ELSE acc
        m2 == Compose(m1, matrix(<< <<cosa, 0 - sina, 0>>, <<sina, cosa, 0>>, <<0, 0, 1>> >>))
    IN  IF Len(args) # 1
        THEN Compose(m2, matrix(<< <<1, 0, 0 - args[2]>>, <<0, 1, 0 - args[3]>>, <<0, 0, 1>> >>))
        ELSE m2

\* Lines 158-207: the body of the loop for one match t, on the matrix acc.
\* The result is the new matrix, or Raised when the body raises:
\*  - t.split('(') does not give two parts (ValueError, line 158);
\*  - args[0] does not exist (IndexError; for an operator that no branch
\*    takes, at line 197);
\*  - matrix with fewer than 6 numbers (IndexError, lines 162-163);
\*  - rotate with exactly 2 numbers: x, y = args[1:3] (ValueError, line 183).
ApplyOp(acc, t) ==
    LET args == t.args
        op == t.op
    IN  IF t.nparen # 1 THEN Raised
        ELSE IF Len(args) = 0 THEN Raised
        ELSE IF op = "matrix" THEN
                IF Len(args) < 6 THEN Raised
                ELSE Compose(acc, matrix(<< <<args[1], args[3], args[5]>>,
                                           <<args[2], args[4], args[6]>>,
                                           <<0, 0, 1>> >>))
        ELSE IF op = "translate" THEN
                Compose(acc, matrix(<< <<1, 0, args[1]>>,
                                       <<0, 1, extract_arg(args, 1, 0)>>,
                                       <<0, 0, 1>> >>))
        ELSE IF op = "scale" THEN
                Compose(acc, matrix(<< <<args[1], 0, 0>>,
                                       <<0, extract_arg(args, 1, 1), 0>>,
                                       <<0, 0, 1>> >>))
        ELSE IF op = "rotate" THEN
                IF Len(args) = 2 THEN Raised ELSE rotate(acc, args)
        ELSE IF op = "skewX" THEN
                Compose(acc, matrix(<< <<1, Tan(args[1]), 0>>, <<0, 1, 0>>, <<0, 0, 1>> >>))
        ELSE IF op = "skewY" THEN
                Compose(acc, matrix(<< <<1, 0, 0>>, <<Tan(args[1]), 1, 0>>, <<0, 0, 1>> >>))
        ELSE acc

\* element_position, lines 237-238: the matrix applied to the point (x, y, 1).
\* The last row of every matrix here is (0, 0, 1), so the division is by 1.
ApplyToPoint(mat, p) ==
    << mat[1][1] * p[1] + mat[1][2] * p[2] + mat[1][3],
       mat[2][1] * p[1] + mat[2][2] * p[2] + mat[2][3] >>

\* ---- the inputs ----
RECURSIVE ArgTokens(_)
ArgTokens(args) ==
    LET Num(n) == [k |-> "num", s |-> "", v |-> n]
    IN  IF args = <<>> THEN <<>>
        ELSE IF Len(args) = 1 THEN <<Num(args[1])>>
        ELSE <<Num(args[1]), Sep>> \o ArgTokens(Tail(args))

\* "name(args)" and "nameX(args)"
OpText(name, args)        == <<Lc(name), LP>> \o ArgTokens(args) \o <<RP>>
OpTextX(name, up, args)   ==
    <<Lc(name), [k |-> "uc", s |-> up, v |-> 0], LP>> \o ArgTokens(args) \o <<RP>>

\* Operator texts with the arguments the operators are documented to take.
WellFormedPieces ==
    { OpText("translate", a) : a \in { <<10, 0>>, <<3>>, <<3, 4>> } } \cup
    { OpText("scale", a) : a \in { <<2>>, <<2, 2>>, <<2, 3>> } } \cup
    { OpText("rotate", <<d>>) : d \in {90, 180} } \cup
    { OpText("rotate", <<d, p[1], p[2]>>) : d \in {90, 180}, p \in { <<5, 5>>, <<1, 2>> } } \cup
    { OpText("matrix", a) : a \in { <<1, 0, 0, 1, 5, 5>>, <<0, 1, -1, 0, 2, 3>> } } \cup
    { OpTextX("skew", "X", <<45>>), OpTextX("skew", "Y", <<45>>) }

RECURSIVE Join(_)
\* The pieces written one after another, a blank between two.
Join(ps) ==
    IF ps = <<>> THEN <<>>
    ELSE IF Len(ps) = 1 THEN ps[1]
    ELSE ps[1] \o <<Sep>> \o Join(Tail(ps))

NoTransform == [none |-> TRUE, text |-> <<>>]

\* No transform attribute, or at most MaxOps pieces: well-formed ones and
\* texts that are no operator of the list (an unknown name, an empty or too
\* short argument list, a stray word, a doubled parenthesis).
TransformInputs ==
    LET MalformedPieces ==
            { OpText("foo", <<1>>), OpText("foo", <<>>),
              OpText("translate", <<>>), OpText("matrix", <<1, 2>>),
              OpText("rotate", <<90, 5>>),
              <<Lc("rotate")>>,
              <<Lc("translate"), LP, LP>> \o ArgTokens(<<1, 2>>) \o <<RP>> }
        Pieces == WellFormedPieces \cup MalformedPieces
    IN  {NoTransform} \cup
        { [none |-> FALSE, text |-> Join(ps)] :
            ps \in UNION { [1..n -> Pieces] : n \in 0..MaxOps } }

TransInit ==
    /\ transform \in TransformInputs
    /\ trans = <<>>
    /\ m = Identity
    /\ tpc = "start"
    /\ Idle("trans")

\* Lines 153-155: no transform attribute
ReturnIdentity ==
    /\ tpc = "start"
    /\ transform.none
    /\ tpc' = "done"
    /\ UNCHANGED <<transform, trans, m>>
    /\ UNCHANGED <<stitchVars, posVars, compVars, resVars, planVars, viewerVars, guideVars, facadeVars>>

\* Line 156
FindOperators ==
    /\ tpc = "start"
    /\ ~transform.none
    /\ trans' = FindAll(transform.text, 1)
    /\ tpc' = "loop"
    /\ UNCHANGED <<transform, m>>
    /\ UNCHANGED <<stitchVars, posVars, compVars, resVars, planVars, viewerVars, guideVars, facadeVars>>

\* Lines 157-207: one pass of the loop body that does not raise
ApplyOperator ==
    /\ tpc = "loop"
    /\ trans # <<>>
    /\ ApplyOp(m, Head(trans)) # Raised
    /\ m' = ApplyOp(m, Head(trans))
    /\ trans' = Tail(trans)
    /\ UNCHANGED <<transform, tpc>>
    /\ UNCHANGED <<stitchVars, posVars, compVars, resVars, planVars, viewerVars, guideVars, facadeVars>>

\* Lines 157-207: one pass of the loop body that raises
RaiseInOperator ==
    /\ tpc = "loop"
    /\ trans # <<>>
    /\ ApplyOp(m, Head(trans)) = Raised
    /\ tpc' = "raised"
    /\ UNCHANGED <<transform, trans, m>>
    /\ UNCHANGED <<stitchVars, posVars, compVars, resVars, planVars, viewerVars, guideVars, facadeVars>>

\* Line 208
ReturnMatrix ==
    /\ tpc = "loop"
    /\ trans = <<>>
    /\ tpc' = "done"
    /\ UNCHANGED <<transform, trans, m>>
    /\ UNCHANGED <<stitchVars, posVars, compVars, resVars, planVars, viewerVars, guideVars, facadeVars>>

TransNext ==
    \/ ReturnIdentity
    \/ FindOperators
    \/ ApplyOperator
    \/ RaiseInOperator
    \/ ReturnMatrix

TransSpec == TransInit /\ [][TransNext]_vars


(***************************************************************************)
(*                 PROPERTIES OF THE TRANSFORM ENGINE                      *)
(***************************************************************************)
\* The operators re.findall takes from the transform text.
OpsOfText == FindAll(transform.text, 1)
\* The transform text is exactly one operator text.
IsSingleOp(name, nargs) ==
    /\ ~transform.none
    /\ Len(OpsOfText) = 1
    /\ OpsOfText[1].op = name
    /\ Len(OpsOfText[1].args) = nargs
    /\ transform.text = OpText(name, OpsOfText[1].args)

RECURSIVE ApplyChain(_, _)
\* The operators applied to a point one after another, the rightmost first.
ApplyChain(ops, p) ==
    IF ops = <<>> THEN p
    ELSE ApplyToPoint(ApplyOp(Identity, Head(ops)), ApplyChain(Tail(ops), p))

TestPoints == { <<1, 0>>, <<0, 1>>, <<2, 3>> }
TranslateThenRotate == Join(<< OpText("translate", <<10, 0>>), OpText("rotate", <<90>>) >>)

\* C6: the matrix of a text with several operators maps a point to what the
\* operators give when applied one after another from the rightmost to the
\* leftmost; "translate(10,0) rotate(90)" maps (1,0) to (10,1).
C6_ComposesLeftToRight ==
    (tpc = "done" /\ ~transform.none) =>
        /\ \A p \in TestPoints : ApplyToPoint(m, p) = ApplyChain(OpsOfText, p)
        /\ transform.text = TranslateThenRotate => ApplyToPoint(m, <<1, 0>>) = <<10, 1>>

\* "translate(10,0) rotate(90)" parsed.
C6_Witness ==
    /\ tpc = "done"
    /\ ~transform.none
    /\ transform.text = TranslateThenRotate
    /\ Len(OpsOfText) = 2
    /\ ApplyToPoint(m, <<1, 0>>) = <<10, 1>>

\* C7: scale(x) gives the matrix of scale(x, x).
C7_ScaleDefaultsToUniform ==
    (tpc = "done" /\ IsSingleOp("scale", 1)) =>
        m = << <<OpsOfText[1].args[1], 0, 0>>,
               <<0, OpsOfText[1].args[1], 0>>,
               <<0, 0, 1>> >>

\* C8: skewX(a) and skewY(a) with a = 45 degrees (tan a = 1) give the skew
\* matrices.
C8_SkewIsRecognized ==
    /\ (tpc = "done" /\ ~transform.none /\ transform.text = OpTextX("skew", "X", <<45>>)) =>
          m = << <<1, 1, 0>>, <<0, 1, 0>>, <<0, 0, 1>> >>
    /\ (tpc = "done" /\ ~transform.none /\ transform.text = OpTextX("skew", "Y", <<45>>)) =>
          m = << <<1, 0, 0>>, <<1, 1, 0>>, <<0, 0, 1>> >>

WellFormedTexts ==
    { Join(ps) : ps \in UNION { [1..n -> WellFormedPieces] : n \in 1..MaxOps } }
IsNotWellFormed == transform.none \/ transform.text \notin WellFormedTexts

\* C9: for no transform and for a text that is not a list of well-formed
\* operators, the parser does not raise and returns the identity.
C9_MalformedGivesIdentity ==
    (tpc # "idle" /\ IsNotWellFormed) =>
        /\ tpc # "raised"
        /\ tpc = "done" => m = Identity

\* C10: the matrix of rotate(deg, cx, cy) maps (cx, cy) to itself.
C10_PivotIsFixed ==
    (tpc = "done" /\ IsSingleOp("rotate", 3)) =>
        LET a == OpsOfText[1].args
        IN  /\ ApplyToPoint(m, <<a[2], a[3]>>) = <<a[2], a[3]>>
            /\ \A p \in TestPoints :
                  ApplyToPoint(m, <<a[2] + p[1], a[3] + p[2]>>)
                    = << a[2] + Cos(a[1]) * p[1] - Sin(a[1]) * p[2],
                         a[3] + Sin(a[1]) * p[1] + Cos(a[1]) * p[2] >>

\* "rotate(180,5,5)" parsed, with (5,5) mapped to (5,5).
C10_Witness ==
    /\ tpc = "done"
    /\ ~transform.none
    /\ transform.text = OpText("rotate", <<180, 5, 5>>)
    /\ ApplyToPoint(m, <<5, 5>>) = <<5, 5>>
    /\ m # Identity


(***************************************************************************)
(*        element_position AND collect_transformation, lines 210-238       *)
(*                                                                         *)
(* The ancestors of the element are a chain: nodes[1] is the document      *)
(* root, nodes[i - 1] is the parent of nodes[i] and the last node is the   *)
(* element whose position is asked for.  An element is named by its index, *)
(* and None (no element) is 0, so that the parent of nodes[1] is None.     *)
(* The recursion of collect_transformation first goes up, one call per     *)
(* ancestor, and multiplies on the way back.                               *)
(***************************************************************************)
\* The longest chain of elements from the document root to the element.
MaxDepth == 3

None == 0

\* element.getparent()
getparent(e) == e - 1

RECURSIVE ApplyAll(_, _)
\* Lines 157-207: the loop of to_trans_matrix over the matches.
ApplyAll(acc, ops) ==
    IF ops = <<>> THEN acc
    ELSE IF ApplyOp(acc, Head(ops)) = Raised THEN Raised
    ELSE ApplyAll(ApplyOp(acc, Head(ops)), Tail(ops))

\* to_trans_matrix(transform), lines 149-208, as a function of the text.
to_trans_matrix(text) == ApplyAll(Identity, FindAll(text, 1))

\* A walk that goes on up to the document root whatever the stop ancestor is.
RecursesToTheTop(e, r) == getparent(e) # None

\* Lines 214-222: whether collect_transformation(e, r) calls itself on the
\* parent of e.
Recurses(e, r) ==
    IF r = None THEN getparent(e) # None ELSE getparent(e) # r

\* ---- the inputs ----
\* At most MaxDepth nodes from the top of the document down: the ancestors,
\* and last the element itself with its x and y attributes.  The transform
\* attribute of a node is absent or one of three texts.
NodeChains ==
    LET NodeTransforms ==
            { NoTransform,
              [none |-> FALSE, text |-> OpText("translate", <<10, 0>>)],
              [none |-> FALSE, text |-> OpText("rotate", <<90>>)],
              [none |-> FALSE, text |-> OpText("scale", <<2, 3>>)] }
        AncestorNodes == { [transform |-> t, x |-> 0, y |-> 0] : t \in NodeTransforms }
        ElementNodes  == { [transform |-> t, x |-> q[1], y |-> q[2]] :
                              t \in NodeTransforms, q \in { <<1, 0>>, <<2, 3>> } }
    IN  UNION { { a \o <<e>> : a \in [1..(n - 1) -> AncestorNodes], e \in ElementNodes } :
                n \in 1..MaxDepth }

\* element_position(element, root) with root None or a proper ancestor of
\* the element, as _create_component calls it (line 839: the origin marker
\* was found below component_element).
PosInit ==
    /\ nodes \in NodeChains
    /\ root \in 0..(MaxDepth - 1)
    /\ root < Len(nodes)
    /\ cur = Len(nodes)
    /\ cm = <<>>
    /\ position = <<>>
    /\ ppc = "up"
    /\ Idle("pos")

\* Lines 214-217, 219-220: the call for cur calls itself on the parent.
CollectFromParent ==
    /\ ppc = "up"
    /\ Recurses(cur, root)
    /\ cur' = getparent(cur)
    /\ UNCHANGED <<nodes, root, cm, position, ppc>>
    /\ UNCHANGED <<stitchVars, transVars, compVars, resVars, planVars, viewerVars, guideVars, facadeVars>>

\* Lines 218, 222: the topmost call starts from the identity.
CollectFromIdentity ==
    /\ ppc = "up"
    /\ ~Recurses(cur, root)
    /\ cm' = matrix(<< <<1, 0, 0>>, <<0, 1, 0>>, <<0, 0, 1>> >>)
    /\ ppc' = "down"
    /\ UNCHANGED <<nodes, root, cur, position>>
    /\ UNCHANGED <<stitchVars, transVars, compVars, resVars, planVars, viewerVars, guideVars, facadeVars>>

\* Lines 223-228: the call for cur returns m, multiplied by the matrix of its
\* own transform attribute when it has one, to the call for its child or to
\* element_position.
CollectReturn ==
    /\ ppc = "down"
    /\ LET t == nodes[cur].transform
           local == to_trans_matrix(t.text)
       IN  IF ~t.none /\ local = Raised
           THEN ppc' = "raised" /\ UNCHANGED <<cm, cur>>
           ELSE /\ cm' = IF t.none THEN cm ELSE matmul(cm, local)
                /\ cur' = IF cur = Len(nodes) THEN cur ELSE cur + 1
                /\ ppc' = IF cur = Len(nodes) THEN "collected" ELSE "down"
    /\ UNCHANGED <<nodes, root, position>>
    /\ UNCHANGED <<stitchVars, transVars, compVars, resVars, planVars, viewerVars, guideVars, facadeVars>>

\* Lines 231-238
ElementPosition ==
    /\ ppc = "collected"
    /\ position' = ApplyToPoint(cm, <<nodes[Len(nodes)].x, nodes[Len(nodes)].y>>)
    /\ ppc' = "done"
    /\ UNCHANGED <<nodes, root, cur, cm>>
    /\ UNCHANGED <<stitchVars, transVars, compVars, resVars, planVars, viewerVars, guideVars, facadeVars>>

PosNext ==
    \/ CollectFromParent
    \/ CollectFromIdentity
    \/ CollectReturn
    \/ ElementPosition

PosSpec == PosInit /\ [][PosNext]_vars

(***************************************************************************)
(*                   PROPERTIES OF element_position                        *)
(***************************************************************************)
\* The matrix of the transform attribute of nodes[i].
LocalMatrix(i) ==
    IF nodes[i].transform.none THEN Identity
    ELSE to_trans_matrix(nodes[i].transform.text)

RECURSIVE ChainProduct(_, _)
\* local(i) x local(i + 1) x ... x local(j): the outermost on the left.
ChainProduct(i, j) ==
    IF i > j THEN Identity ELSE matmul(LocalMatrix(i), ChainProduct(i + 1, j))

\* C11: with a stop ancestor, the walk visits only the nodes below the stop
\* ancestor, and the position is the product of the local transforms of
\* these nodes, the outermost first and the node's own last, applied to the
\* node's (x, y); the transform of the stop ancestor and of the nodes above
\* it take no part.
C11_PositionBelowStopAncestor ==
    root # None =>
        /\ ppc \in {"up", "down", "collected"} => cur > root
        /\ ppc = "done" =>
              position = ApplyToPoint(ChainProduct(root + 1, Len(nodes)),
                                      <<nodes[Len(nodes)].x, nodes[Len(nodes)].y>>)

\* A position found through two transformed ancestors below a transformed
\* stop ancestor, where the order of the product and the exclusion of the
\* stop ancestor both show.
C11_Witness ==
    /\ ppc = "done"
    /\ root = 1
    /\ Len(nodes) = 3
    /\ nodes[1].transform = [none |-> FALSE, text |-> OpText("scale", <<2, 3>>)]
    /\ nodes[2].transform = [none |-> FALSE, text |-> OpText("translate", <<10, 0>>)]
    /\ nodes[3].transform = [none |-> FALSE, text |-> OpText("rotate", <<90>>)]
    /\ nodes[3].x = 1 /\ nodes[3].y = 0
    /\ position = <<10, 1>>


(***************************************************************************)
(*               read_resistance, src/pcbdraw/unit.py 5-49                 *)
(*                                                                         *)
(* A string is the sequence of its characters.  A Decimal is the pair      *)
(* <<coefficient, exponent>> of the number coefficient * 10^exponent, as   *)
(* decimal.Decimal keeps it; the sums and products here have far fewer     *)
(* than the 28 digits of the default context, so none is rounded.  The     *)
(* characters of the model are digits, the point, the blank, the unit      *)
(* prefixes and the letters of the unit names: no sign, no exponent        *)
(* letter, no underscore and no letter of "Infinity" or "NaN" beside them, *)
(* so the text Decimal accepts is digits with at most one point.           *)
(***************************************************************************)
\* The most digits before, and after, the unit prefix or the point.
MaxDigits == 2

RECURSIVE Pow10(_)
Pow10(n) == IF n = 0 THEN 1 ELSE 10 * Pow10(n - 1)

DigitChars == {"0", "1", "2", "3", "4", "5", "6", "7", "8", "9"}

\* What Decimal(text) gives for a text it does not accept
\* (decimal.InvalidOperation).
Invalid == <<>>

RECURSIVE IntOf(_, _)
\* The integer written by the digits of s, the point skipped; acc is the
\* value of the digits read so far.
IntOf(s, acc) ==
    LET DigitVal(c) ==
            CASE c = "0" -> 0 [] c = "1" -> 1 [] c = "2" -> 2 [] c = "3" -> 3
              [] c = "4" -> 4 [] c = "5" -> 5 [] c = "6" -> 6 [] c = "7" -> 7
              [] c = "8" -> 8 [] c = "9" -> 9
    IN  IF s = <<>> THEN acc
        ELSE IF Head(s) = "." THEN IntOf(Tail(s), acc)
        ELSE IntOf(Tail(s), 10 * acc + DigitVal(Head(s)))

\* The index of the first c in s, or 0.
find(s, c) ==
    IF \E i \in 1..Len(s) : s[i] = c
    THEN CHOOSE i \in 1..Len(s) : s[i] = c /\ \A j \in 1..(i - 1) : s[j] # c
    ELSE 0

\* Decimal(s): s is digits with at most one point and at least one digit.
Decimal(s) ==
    IF /\ \A i \in 1..Len(s) : s[i] \in DigitChars \cup {"."}
       /\ Cardinality({ i \in 1..Len(s) : s[i] = "." }) <= 1
       /\ \E i \in 1..Len(s) : s[i] \in DigitChars
    THEN << IntOf(s, 0), IF find(s, ".") = 0 THEN 0 ELSE find(s, ".") - Len(s) >>
    ELSE Invalid

\* Decimal.__eq__: the numbers are equal
NumEq(a, b) ==
    LET e == IF a[2] < b[2] THEN a[2] ELSE b[2]
    IN  a[1] * Pow10(a[2] - e) = b[1] * Pow10(b[2] - e)

RECURSIVE replace(_, _)
\* s.replace(what, ""): every occurrence of what, from the left, removed
replace(s, what) ==
    IF Len(s) < Len(what) THEN s
    ELSE IF SubSeq(s, 1, Len(what)) = what
         THEN replace(SubSeq(s, Len(what) + 1, Len(s)), what)
         ELSE <<Head(s)>> \o replace(Tail(s), what)

RECURSIVE erase(_, _)
\* Lines 5-12
erase(string, what) ==
    IF what = <<>> THEN string
    ELSE erase(replace(string, Head(what)), Tail(what))

\* str.strip(): the text from its first to its last character that is no
\* blank
strip(s) ==
    LET NonBlank == { i \in 1..Len(s) : s[i] # " " }
    IN  IF NonBlank = {} THEN <<>>
        ELSE SubSeq(s, CHOOSE i \in NonBlank : \A j \in NonBlank : i <= j,
                       CHOOSE i \in NonBlank : \A j \in NonBlank : i >= j)

\* Lines 23-30 with a unit prefix R that multiplies by 1000.
unit_prefixes_with_R_as_kilo ==
    << <<"m", <<1, -3>> >>, <<"R", <<1, 3>> >>, <<"K", <<1, 3>> >>,
       <<"k", <<1, 3>> >>,  <<"M", <<1, 6>> >>, <<"G", <<1, 9>> >> >>

\* Lines 23-30: the dictionary, in its order of insertion
unit_prefixes ==
    << <<"m", <<1, -3>> >>, <<"R", <<1, 0>> >>, <<"K", <<1, 3>> >>,
       <<"k", <<1, 3>> >>,  <<"M", <<1, 6>> >>, <<"G", <<1, 9>> >> >>

\* Lines 33-34: the index of the first prefix of the dictionary that occurs
\* in the text, or 0.
FirstPrefix(text) ==
    IF \E i \in 1..Len(unit_prefixes) : find(text, unit_prefixes[i][1]) # 0
    THEN CHOOSE i \in 1..Len(unit_prefixes) :
            /\ find(text, unit_prefixes[i][1]) # 0
            /\ \A j \in 1..(i - 1) : find(text, unit_prefixes[j][1]) = 0
    ELSE 0

\* The digits after the prefix read as a whole number.
n_dec_without_point(s) == IF s # <<>> THEN Decimal(s) ELSE <<0, 0>>

\* Line 40: n_dec
n_dec(s) == IF s # <<>> THEN Decimal(<<".">> \o s) ELSE <<0, 0>>

\* Lines 38-41 for the prefix unit_prefixes[i]: numerical_value, or Invalid
\* when one of the two Decimal(...) raises.  split0 and split1 are
\* text.split(c)[0] and text.split(c)[1] for a text that holds c; mul and add
\* are Decimal.__mul__ and Decimal.__add__ (exact at these sizes).
PrefixedValue(text, i) ==
    LET pfx   == unit_prefixes[i][1]
        table == unit_prefixes[i][2]
        split0(c) == SubSeq(text, 1, find(text, c) - 1)
        split1(c) ==
            LET rest == SubSeq(text, find(text, c) + 1, Len(text))
            IN  IF find(rest, c) = 0 THEN rest ELSE SubSeq(rest, 1, find(rest, c) - 1)
        n_whole(s) == IF s # <<>> THEN Decimal(s) ELSE <<0, 0>>
        mul(a, b) == << a[1] * b[1], a[2] + b[2] >>
        add(a, b) ==
            LET e == IF a[2] < b[2] THEN a[2] ELSE b[2]
            IN  << a[1] * Pow10(a[2] - e) + b[1] * Pow10(b[2] - e), e >>
        w == n_whole(split0(pfx))
        d == n_dec(split1(pfx))
    IN  IF w = Invalid \/ d = Invalid THEN Invalid
        ELSE add(mul(w, table), mul(d, table))

\* ---- the inputs ----
PrefixChars == { unit_prefixes[i][1] : i \in 1..Len(unit_prefixes) }

\* The character U+03A9 (the ohm sign of line 21).
Omega == "OMEGA"

\* Texts "a p b", "a.b" and "a" for digit strings a and b and a prefix p,
\* the texts of the documentation and of the tests, texts with a unit name
\* or blanks, and texts that are no resistance.
ResistanceTexts ==
    LET DigitStrings == UNION { [1..n -> {"0", "4", "7"}] : n \in 0..MaxDigits }
    IN
    { a \o <<p>> \o b : a \in DigitStrings, b \in DigitStrings, p \in PrefixChars } \cup
    { a \o <<".">> \o b : a \in DigitStrings, b \in DigitStrings } \cup
    DigitStrings \cup
    { <<"4", "7", "0", "0">>, <<"4", ".", "7", "k">>, <<"4", ".", "7", "R">>,
      <<"4", "k", "7", Omega>>, <<"4", "7", " ", "O", "h", "m">>,
      <<"4", "7", "k", "O", "h", "m", "s">>, <<"4", " ", "k", "7">>,
      <<" ", "4", "7", " ">>,
      <<"x">>, <<"4", ".", ".", "7">>, <<"4", "m", "k">>, <<"4", "k", ".", "7">> }

ResInit ==
    /\ value \in ResistanceTexts
    /\ p_value = <<>>
    /\ numerical_value = <<>>
    /\ rpc = "start"
    /\ Idle("res")

\* Lines 21-22
EraseUnits ==
    /\ rpc = "start"
    /\ p_value' = replace(strip(erase(value,
                      << <<Omega>>, <<"O", "h", "m", "s">>, <<"O", "h", "m">> >>)), <<" ">>)
    /\ rpc' = "parse"
    /\ UNCHANGED <<value, numerical_value>>
    /\ UNCHANGED <<stitchVars, transVars, posVars, compVars, planVars, viewerVars, guideVars, facadeVars>>

\* Lines 33-42 and 46, or 47-49 when a Decimal(...) raises: the text holds a
\* unit prefix.
ParsePrefixed ==
    /\ rpc = "parse"
    /\ FirstPrefix(p_value) # 0
    /\ LET v == PrefixedValue(p_value, FirstPrefix(p_value))
       IN  IF v = Invalid
           THEN rpc' = "ValueError" /\ UNCHANGED numerical_value
           ELSE rpc' = "done" /\ numerical_value' = v
    /\ UNCHANGED <<value, p_value>>
    /\ UNCHANGED <<stitchVars, transVars, posVars, compVars, planVars, viewerVars, guideVars, facadeVars>>

\* Lines 43-46, or 47-49 when Decimal(p_value) raises: no unit prefix.
ParsePlain ==
    /\ rpc = "parse"
    /\ FirstPrefix(p_value) = 0
    /\ LET v == Decimal(p_value)
       IN  IF v = Invalid
           THEN rpc' = "ValueError" /\ UNCHANGED numerical_value
           ELSE rpc' = "done" /\ numerical_value' = v
    /\ UNCHANGED <<value, p_value>>
    /\ UNCHANGED <<stitchVars, transVars, posVars, compVars, planVars, viewerVars, guideVars, facadeVars>>

ResNext ==
    \/ EraseUnits
    \/ ParsePrefixed
    \/ ParsePlain

ResSpec == ResInit /\ [][ResNext]_vars

\* Lines 31-49 on the text p_value, the index i of its first unit prefix
\* given: the Decimal, or Invalid for ValueError
Parse(pv) ==
    IF FirstPrefix(pv) # 0 THEN PrefixedValue(pv, FirstPrefix(pv)) ELSE Decimal(pv)

\* read_resistance(text) as a function: the Decimal, or Invalid for ValueError
read_resistance(text) ==
    Parse(replace(strip(erase(text,
            << <<Omega>>, <<"O", "h", "m", "s">>, <<"O", "h", "m">> >>)), <<" ">>))

(***************************************************************************)
(*                    PROPERTIES OF read_resistance                        *)
(***************************************************************************)
Returned == rpc \in {"done", "ValueError"}

FourTexts ==
    { <<"4", "k", "7">>, <<"4", "R", "7">>, <<"4", "7", "0", "0">>, <<"4", ".", "7", "k">> }

\* C19 as stated: "4k7", "4R7", "4700" and "4.7k" all give 4700.
C19_AllFourAre4700 ==
    (Returned /\ value \in FourTexts) =>
        rpc = "done" /\ NumEq(numerical_value, <<4700, 0>>)

\* C19, amended: "4k7", "4700" and "4.7k" give 4700, and "4R7" gives 4.7
\* (R is the prefix of the unit itself).
C19_ThreeAre4700AndRIsOhms ==
    /\ (Returned /\ value \in FourTexts \ {<<"4", "R", "7">>}) =>
          rpc = "done" /\ NumEq(numerical_value, <<4700, 0>>)
    /\ (Returned /\ value = <<"4", "R", "7">>) =>
          rpc = "done" /\ NumEq(numerical_value, <<47, -1>>)

\* "4R7" read as 4.7.
C19_Witness ==
    /\ rpc = "done"
    /\ value = <<"4", "R", "7">>
    /\ NumEq(numerical_value, <<47, -1>>)
    /\ ~NumEq(numerical_value, <<4700, 0>>)

\* mult(p) as a power of ten
MultExp(p) ==
    CASE p = "m" -> -3 [] p = "R" -> 0 [] p = "k" -> 3 [] p = "K" -> 3
      [] p = "M" -> 6 [] p = "G" -> 9

IsDigits(s) == \A i \in 1..Len(s) : s[i] \in DigitChars

\* value is "a p b": digits, one prefix, digits (b may be empty).
IsPrefixForm ==
    \E i \in 1..Len(value) :
        /\ value[i] \in PrefixChars
        /\ i > 1
        /\ IsDigits(SubSeq(value, 1, i - 1))
        /\ IsDigits(SubSeq(value, i + 1, Len(value)))
PrefixAt == CHOOSE i \in 1..Len(value) : value[i] \in PrefixChars

\* value is a plain decimal number "a" or "a.b".
IsPlainForm ==
    /\ value # <<>>
    /\ \/ IsDigits(value)
       \/ \E i \in 2..(Len(value) - 1) :
            /\ value[i] = "."
            /\ IsDigits(SubSeq(value, 1, i - 1))
            /\ IsDigits(SubSeq(value, i + 1, Len(value)))
PointAt == IF IsDigits(value) THEN Len(value) + 1 ELSE CHOOSE i \in 1..Len(value) : value[i] = "."

MaxFootprints == 3

RECURSIVE str(_)
\* str(n) of a natural number
str(n) ==
    LET DigitChar(d) ==
            CASE d = 0 -> "0" [] d = 1 -> "1" [] d = 2 -> "2" [] d = 3 -> "3"
              [] d = 4 -> "4" [] d = 5 -> "5" [] d = 6 -> "6" [] d = 7 -> "7"
              [] d = 8 -> "8" [] d = 9 -> "9"
    IN  IF n < 10 THEN <<DigitChar(n)>> ELSE str(n \div 10) \o <<DigitChar(n % 10)>>

\* Lines 325-331: the characters of s that are letters, digits or "_"
\* (line 329), without the leading ones that are neither a letter nor "_"
\* (line 330).
make_XML_identifier(s) ==
    LET LetterChars ==
            { "a", "b", "c", "d", "e", "f", "g", "h", "i", "j", "k", "l", "m",
              "n", "o", "p", "q", "r", "s", "t", "u", "v", "w", "x", "y", "z",
              "A", "B", "C", "D", "E", "F", "G", "H", "I", "J", "K", "L", "M",
              "N", "O", "P", "Q", "R", "S", "T", "U", "V", "W", "X", "Y", "Z" }
        kept == SelectSeq(s, LAMBDA c : c \in DigitChars \cup LetterChars \cup {"_"})
        First == { i \in 1..Len(kept) : kept[i] \in LetterChars \cup {"_"} }
    IN  IF First = {} THEN <<>>
        ELSE SubSeq(kept, CHOOSE i \in First : \A j \in First : i <= j, Len(kept))

\* Lines 776-777: f"{self._prefix}_{lib}__{name}_{value}"
get_unique_name(lib, name, val) ==
    prefix \o <<"_">> \o lib \o <<"_", "_">> \o name \o <<"_">> \o val

\* Line 766: the default remapping
remapping(ref, lib, name) == <<lib, name>>

\* Line 764 and ui.py 214-218: the filter; options.filter is None (no
\* --filter option) or the set of the references to show.
filter(ref) == options.filter.none \/ ref \in options.filter.refs

\* Lines 788, 890: ref in self.resistor_values, and the entry
InResistorValues(ref) == \E v \in options.resistor_values : v.ref = ref
ResistorValueOf(ref) == CHOOSE v \in options.resistor_values : v.ref = ref

\* Lines 1150-1159: the artwork file of the libraries, or no file
HasModelFile(lib, name) == \E f \in library : f.lib = lib /\ f.name = name
get_model_file(lib, name) == CHOOSE f \in library : f.lib = lib /\ f.name = name

\* Lines 57-67: default_style["tht-resistor-band-colors"], the digits
digit_color(d) ==
    CASE d = 0 -> "#000000" [] d = 1 -> "#805500" [] d = 2 -> "#ff0000"
      [] d = 3 -> "#ff8000" [] d = 4 -> "#ffff00" [] d = 5 -> "#00cc11"
      [] d = 6 -> "#0000cc" [] d = 7 -> "#cc00cc" [] d = 8 -> "#666666"
      [] d = 9 -> "#cccccc"

\* Lines 68-75: the tolerances
tolerance_color(t) ==
    CASE t = <<"1", "%">> -> "#805500" [] t = <<"2", "%">> -> "#ff0000"
      [] t = <<"0", ".", "5", "%">> -> "#00cc11" [] t = <<"0", ".", "2", "5", "%">> -> "#0000cc"
      [] t = <<"0", ".", "1", "%">> -> "#cc00cc" [] t = <<"0", ".", "0", "5", "%">> -> "#666666"
      [] t = <<"5", "%">> -> "#ffc800" [] t = <<"1", "0", "%">> -> "#d9d9d9"

\* What _get_resistance_from_value gives when it raises UserWarning.
UserWarning == <<>>

\* Lines 918-927: the tolerance, res and the text after the first blank given
\* (has_rest: there is a blank)
ResistanceWithTolerance(res, has_rest, t_string) ==
    LET ToleranceKeys ==
            { <<"1", "%">>, <<"2", "%">>, <<"0", ".", "5", "%">>,
              <<"0", ".", "2", "5", "%">>, <<"0", ".", "1", "%">>,
              <<"0", ".", "0", "5", "%">>, <<"5", "%">>, <<"1", "0", "%">> }
    IN  IF res = Invalid THEN UserWarning
        ELSE IF has_rest /\ find(t_string, "%") # 0
             THEN IF t_string \notin ToleranceKeys THEN UserWarning
                  ELSE <<res, t_string>>
             ELSE <<res, <<"5", "%">> >>

\* Lines 911-927: <<res, tolerance>>, or UserWarning.  Lines 913-919:
\* value.split(" ", maxsplit=1) splits at the first blank.
get_resistance_from_value(val) ==
    ResistanceWithTolerance(
        read_resistance(IF find(val, " ") = 0 THEN val
                        ELSE SubSeq(val, 1, find(val, " ") - 1)),
        find(val, " ") # 0,
        IF find(val, " ") = 0 THEN <<>>
        ELSE replace(strip(SubSeq(val, find(val, " ") + 1, Len(val))), <<" ">>))

RECURSIVE NumDigits(_)
\* The number of digits of a positive integer.
NumDigits(n) == IF n < 10 THEN 1 ELSE 1 + NumDigits(n \div 10)

\* list.reverse() of a list of four
reverse(l) == << l[4], l[3], l[2], l[1] >>

\* The state of a band sub-element: not in the artwork, as drawn, or filled
\* with a colour of the table.
Absent   == "absent"
Original == "original"

\* Lines 890-892
resistor_colors(ref, colors) ==
    IF InResistorValues(ref) /\ ResistorValueOf(ref).flip_bands
    THEN reverse(colors) ELSE colors

\* What _apply_resistor_code does: the exception that leaves the method ("" for
\* none), whether the "resistor" warning was given, and the bands afterwards.
Recolored(exc, warned, bands) == [exc |-> exc, warned |-> warned, bands |-> bands]

\* Lines 882-906: the first two digits `two` of the value and the power given
ColorBands(bands, ref, two, power, tolerance) ==
    IF power < 0 THEN Recolored("TypeError", FALSE, bands)
    ELSE IF power > 9 THEN Recolored("KeyError", FALSE, bands)
    ELSE IF \E i \in 1..4 : bands[i] = Absent
    THEN Recolored("AttributeError", FALSE, bands)
    ELSE Recolored("", FALSE,
            resistor_colors(ref, << digit_color(two \div 10), digit_color(two % 10),
                                    digit_color(power), tolerance_color(tolerance) >>))

\* Lines 880-909, the result rt of _get_resistance_from_value given.
\* Lines 881-882: power = math.floor(res.log10()) - 1 and
\* int(res / 10 ** power), for res = coef * 10^exp with nd digits in coef.
ApplyResistance(bands, ref, rt) ==
    IF rt = UserWarning THEN Recolored("", TRUE, bands)
    ELSE IF rt[1][1] = 0 THEN Recolored("OverflowError", FALSE, bands)
    ELSE ColorBands(bands, ref,
                    IF NumDigits(rt[1][1]) <= 2
                    THEN rt[1][1] * Pow10(2 - NumDigits(rt[1][1]))
                    ELSE rt[1][1] \div Pow10(NumDigits(rt[1][1]) - 2),
                    (NumDigits(rt[1][1]) + rt[1][2] - 1) - 1,
                    rt[2])

\* Lines 876-909: _apply_resistor_code on an artwork with the bands `bands`.
\*  - res = 0: res.log10() is -Infinity and math.floor raises OverflowError;
\*  - power < 0: 10 ** power is a float and Decimal / float raises TypeError;
\*  - power > 9: get_style raises KeyError (no such colour);
\*  - a band that is not there: band is None and band.attrib raises
\*    AttributeError.
\* Only UserWarning is caught (line 907).
apply_resistor_code(bands, ref, val) ==
    IF bands[1] = Absent THEN Recolored("", FALSE, bands)
    ELSE ApplyResistance(bands, ref, get_resistance_from_value(val))

\* ---- the elements of the document ----
\* An element is the artwork body of line 828 with its bands (tag "g"), the
\* reference of lines 798-799 (tag "use"), or no element.
NoElement == [tag |-> "none", id |-> <<>>, href |-> <<>>, bands |-> <<>>]

\* The children of the component container: the comment of line 808, the
\* placement group of lines 809-817 (its transform is made of the position
\* of the footprint and of the origin of the artwork; the scale comes from
\* the size of the artwork and is left out) and the rectangle of lines
\* 938-942.
Comment(text) ==
    [kind |-> "comment", text |-> text, position |-> <<>>, origin |-> <<>>, child |-> NoElement]
Group(el, pos, origin) ==
    [kind |-> "g", text |-> <<>>, position |-> pos, origin |-> origin, child |-> el]
Placeholder(pos) ==
    [kind |-> "rect", text |-> <<>>, position |-> pos, origin |-> <<>>, child |-> NoElement]

\* ---- the inputs ----
Back == <<".", "b", "a", "c", "k">>

\* What a footprint can be: a resistor with a value that gives colours, with
\* a value below 10 ohms, with a value that is no resistance and with a
\* tolerance that is not in the table, two parts whose names and values
\* differ but read the same when joined by "_", and a resistor on the other
\* side of the board.  The footprint at place i of a board has the reference
\* R<i> and is at (i, 0); a board has at most MaxFootprints footprints.
Boards ==
    LET FootprintKinds ==
    { [lib |-> <<"a">>, name |-> <<"R">>, value |-> <<"4", "k", "7">>, layer |-> "F.Cu"],
      [lib |-> <<"a">>, name |-> <<"R">>, value |-> <<"4", "R", "7">>, layer |-> "F.Cu"],
      [lib |-> <<"a">>, name |-> <<"R">>, value |-> <<"x">>, layer |-> "F.Cu"],
      [lib |-> <<"a">>, name |-> <<"b", "_", "c">>, value |-> <<"d">>, layer |-> "F.Cu"],
      [lib |-> <<"a">>, name |-> <<"b">>, value |-> <<"c", "_", "d">>, layer |-> "F.Cu"],
      [lib |-> <<"a">>, name |-> <<"R">>, value |-> <<"4", "k", "7">>, layer |-> "B.Cu"] }

        Footprint(k, i) ==
            [lib |-> k.lib, name |-> k.name, value |-> k.value, layer |-> k.layer,
             ref |-> <<"R">> \o str(i), pos |-> <<i, 0>>]
    IN  UNION { { [i \in 1..n |-> Footprint(ks[i], i)] : ks \in [1..n -> FootprintKinds] } :
                n \in 0..MaxFootprints }

AllBands == << Original, Original, Original, Original >>

\* The libraries: a/b_c.svg and a/b.svg are plain artwork; a/R.svg is a
\* resistor with its origin marker and four bands, or one without the third
\* band, or plain artwork without an origin marker.  No library has
\* a/R.back.svg.
Libraries ==
    LET NoBands == << Absent, Absent, Absent, Absent >>
        Artwork(lib, name, origin, bands) ==
            [lib |-> lib, name |-> name, origin |-> origin, bands |-> bands]
    IN
    { { Artwork(<<"a">>, <<"b", "_", "c">>, <<3, 4>>, NoBands),
        Artwork(<<"a">>, <<"b">>, <<1, 1>>, NoBands),
        Artwork(<<"a">>, <<"R">>, <<5, 2>>, AllBands) },
      { Artwork(<<"a">>, <<"b", "_", "c">>, <<3, 4>>, NoBands),
        Artwork(<<"a">>, <<"R">>, <<5, 2>>, << Original, Original, Absent, Original >>) },
      { Artwork(<<"a">>, <<"b", "_", "c">>, <<3, 4>>, NoBands),
        Artwork(<<"a">>, <<"R">>, <<>>, NoBands) } }

\* --filter, --resistor-values/--resistor-flip, --placeholders, --werror and
\* --silent; the side is the front (the default of --side).  ui.py 201-208
\* builds the table of the ResistorValue entries (plot.py 565-568) from
\* --resistor-values and --resistor-flip.
OptionSets ==
    LET ResistorValue(ref, has_value, val, flip_bands) ==
            [ref |-> ref, has_value |-> has_value, value |-> val,
             flip_bands |-> flip_bands]
        ResistorTables ==
            { {},
              { ResistorValue(<<"R", "2">>, FALSE, <<>>, TRUE) },
              { ResistorValue(<<"R", "2">>, TRUE, <<"4", "k", "7", " ", "3", "%">>, FALSE) } }
    IN
    { [filter |-> f, resistor_values |-> t, placeholders |-> p,
       werror |-> ws[1], silent |-> ws[2], render_back |-> FALSE] :
        f \in { [none |-> TRUE, refs |-> {}], [none |-> FALSE, refs |-> { <<"R", "1">> }] },
        t \in ResistorTables,
        p \in BOOLEAN,
        ws \in { <<FALSE, FALSE>>, <<TRUE, FALSE>>, <<TRUE, TRUE>> } }

\* PcbPlotter.__init__ (line 993) and the options of ui.plot (ui.py 138-178)
CompInit ==
    /\ board \in Boards
    /\ library \in Libraries
    /\ options \in OptionSets
    /\ prefix = <<>>
    /\ used_components = {}
    /\ comp_cont = <<>>
    /\ warnings = <<>>
    /\ triggered = FALSE
    /\ unique_counter = 1
    /\ loads = <<>>
    /\ walk = 1
    /\ cpc = "start"
    /\ Idle("comp")

\* A walk that calls the callback for the footprints of both sides.
WalkedOnEverySide(fp, invert_side) == TRUE

\* Lines 1061-1065: whether the walk calls the callback for the footprint
Walked(fp, invert_side) ==
    LET render_back == IF invert_side THEN ~options.render_back ELSE options.render_back
    IN  ~ \/ (fp.layer \in {"Back", "B.Cu"} /\ ~render_back)
          \/ (fp.layer \in {"Top", "F.Cu"} /\ render_back)

\* ui.py 76-80: the calls ws of the warning sink
yield_warnings(ws) ==
    /\ warnings' = warnings \o ws
    /\ triggered' = (triggered \/ (ws # <<>> /\ ~options.silent))

Warning(tag, text) == [tag |-> tag, text |-> text]

\* Lines 769-772: PlotComponents.render up to the first walk
StartRender ==
    /\ cpc = "start"
    /\ prefix' = <<"p", "r", "e", "f", "_">> \o str(unique_counter)
    /\ unique_counter' = unique_counter + 1
    /\ used_components' = {}
    /\ walk' = 1
    /\ cpc' = "front"
    /\ UNCHANGED <<board, library, options, comp_cont, warnings, triggered, loads>>
    /\ UNCHANGED <<stitchVars, transVars, posVars, resVars, planVars, viewerVars, guideVars, facadeVars>>

\* Lines 796-799 and 808-817: the combination is in the cache
AppendUse(title, ref, pos, info) ==
    /\ comp_cont' = comp_cont \o
            << Comment(title \o <<":">> \o ref),
               Group([tag |-> "use", id |-> <<>>, href |-> <<"#">> \o info.id,
                      bands |-> <<>>],
                     pos, info.origin) >>
    /\ UNCHANGED <<used_components, warnings, triggered, unique_counter, loads, cpc>>

\* Lines 827-852, then 805-817: the artwork file f is read (read_svg_unique2
\* takes a unique prefix), its origin is found or missed, its bands are
\* recoloured (rc is what _apply_resistor_code does), and the element goes to
\* the cache and to the container.  An exception that leaves
\* _apply_resistor_code leaves the render and ui.plot: cpc becomes its name.
AppendCreated(title, ref, val, pos, unique_name, f, rc) ==
    /\ unique_counter' = unique_counter + 1
    /\ loads' = Append(loads, [lib |-> f.lib, name |-> f.name, value |-> val])
    /\ yield_warnings(
            (IF f.origin = <<>> THEN << Warning("origin", title) >> ELSE <<>>) \o
            (IF rc.warned THEN << Warning("resistor", ref) >> ELSE <<>>))
    /\ IF rc.exc # ""
       THEN /\ cpc' = rc.exc
            /\ UNCHANGED <<used_components, comp_cont>>
       ELSE /\ used_components' = used_components \cup
                    { [key  |-> unique_name,
                       info |-> [id     |-> make_XML_identifier(unique_name),
                                 origin |-> IF f.origin # <<>> THEN f.origin ELSE <<0, 0>>]] }
            /\ comp_cont' = comp_cont \o
                    << Comment(title \o <<":">> \o ref),
                       Group([tag |-> "g", id |-> make_XML_identifier(unique_name),
                              href |-> <<>>, bands |-> rc.bands],
                             pos,
                             IF f.origin # <<>> THEN f.origin ELSE <<0, 0>>) >>
            /\ UNCHANGED cpc

\* Lines 795-817 for the remapped library and name and the displayed value;
\* lines 801-804 with 824-826 when there is no artwork file.
AppendResolved(lib, name, ref, val, pos, unique_name) ==
    IF \E u \in used_components : u.key = unique_name
    THEN AppendUse(lib \o <<":">> \o name, ref, pos,
                   (CHOOSE u \in used_components : u.key = unique_name).info)
    ELSE IF ~HasModelFile(lib, name)
    THEN /\ yield_warnings(<< Warning("component", lib \o <<":">> \o name) >>)
         /\ UNCHANGED <<used_components, comp_cont, unique_counter, loads, cpc>>
    ELSE AppendCreated(lib \o <<":">> \o name, ref, val, pos, unique_name,
                       get_model_file(lib, name),
                       apply_resistor_code(get_model_file(lib, name).bands, ref, val))

\* Lines 788-791: the displayed value
DisplayedValue(ref, val) ==
    IF InResistorValues(ref) /\ ResistorValueOf(ref).has_value
    THEN ResistorValueOf(ref).value ELSE val

\* Lines 783-820: one call of _append_component; lines 793-795 remap the
\* footprint and make the key of the cache.
append_component(lib, name, ref, val, pos) ==
    IF ~filter(ref) \/ name = <<>>
    THEN UNCHANGED <<used_components, comp_cont, warnings, triggered,
                     unique_counter, loads, cpc>>
    ELSE AppendResolved(remapping(ref, lib, name)[1], remapping(ref, lib, name)[2],
                        ref, DisplayedValue(ref, val), pos,
                        get_unique_name(remapping(ref, lib, name)[1],
                                        remapping(ref, lib, name)[2],
                                        DisplayedValue(ref, val)))

\* Line 773 and lines 1066-1073: the first walk calls _append_component
AppendComponent ==
    /\ cpc = "front"
    /\ walk <= Len(board)
    /\ Walked(board[walk], FALSE)
    /\ LET fp == board[walk]
       IN  append_component(fp.lib, fp.name, fp.ref, fp.value, fp.pos)
    /\ walk' = walk + 1
    /\ UNCHANGED <<board, library, options, prefix>>
    /\ UNCHANGED <<stitchVars, transVars, posVars, resVars, planVars, viewerVars, guideVars, facadeVars>>

\* Line 774 and lines 779-781: the second walk calls _append_back_component
AppendBackComponent ==
    /\ cpc = "back"
    /\ walk <= Len(board)
    /\ Walked(board[walk], TRUE)
    /\ LET fp == board[walk]
       IN  append_component(fp.lib, fp.name \o Back, fp.ref, fp.value, fp.pos)
    /\ walk' = walk + 1
    /\ UNCHANGED <<board, library, options, prefix>>
    /\ UNCHANGED <<stitchVars, transVars, posVars, resVars, planVars, viewerVars, guideVars, facadeVars>>

\* Lines 934-942: the walk of PlotPlaceholders calls _append_placeholder
AppendPlaceholder ==
    /\ cpc = "placeholders"
    /\ walk <= Len(board)
    /\ Walked(board[walk], FALSE)
    /\ comp_cont' = Append(comp_cont, Placeholder(board[walk].pos))
    /\ walk' = walk + 1
    /\ UNCHANGED <<board, library, options, prefix, used_components, warnings,
                   triggered, unique_counter, loads, cpc>>
    /\ UNCHANGED <<stitchVars, transVars, posVars, resVars, planVars, viewerVars, guideVars, facadeVars>>

\* Lines 1063-1065: a footprint of the other side is passed over
SkipFootprint ==
    /\ cpc \in {"front", "back", "placeholders"}
    /\ walk <= Len(board)
    /\ ~Walked(board[walk], cpc = "back")
    /\ walk' = walk + 1
    /\ UNCHANGED <<board, library, options, prefix, used_components, comp_cont,
                   warnings, triggered, unique_counter, loads, cpc>>
    /\ UNCHANGED <<stitchVars, transVars, posVars, resVars, planVars, viewerVars, guideVars, facadeVars>>

\* A walk is over: the second walk of PlotComponents.render (line 774), the
\* next plotter of the plan (lines 1041-1042, ui.py 174-178) or the end of
\* the plan.
EndWalk ==
    /\ cpc \in {"front", "back", "placeholders"}
    /\ walk > Len(board)
    /\ cpc' = IF cpc = "front" THEN "back"
              ELSE IF cpc = "back" /\ options.placeholders THEN "placeholders"
              ELSE "plotted"
    /\ walk' = 1
    /\ UNCHANGED <<board, library, options, prefix, used_components, comp_cont,
                   warnings, triggered, unique_counter, loads>>
    /\ UNCHANGED <<stitchVars, transVars, posVars, resVars, planVars, viewerVars, guideVars, facadeVars>>

\* ui.py 180-186: warnings treated as errors, or the image saved
ExitOrSave ==
    /\ cpc = "plotted"
    /\ cpc' = IF options.werror /\ triggered THEN "exit" ELSE "saved"
    /\ UNCHANGED <<board, library, options, prefix, used_components, comp_cont,
                   warnings, triggered, unique_counter, loads, walk>>
    /\ UNCHANGED <<stitchVars, transVars, posVars, resVars, planVars, viewerVars, guideVars, facadeVars>>

CompNext ==
    \/ StartRender
    \/ AppendComponent
    \/ AppendBackComponent
    \/ AppendPlaceholder
    \/ SkipFootprint
    \/ EndWalk
    \/ ExitOrSave

CompSpec == CompInit /\ [][CompNext]_vars

(***************************************************************************)
(*            PROPERTIES OF THE COMPONENT PLACEMENT ENGINE                 *)
(***************************************************************************)
Exceptions == {"TypeError", "OverflowError", "KeyError", "AttributeError"}

\* PlotComponents.render has returned.
ComponentsDone == cpc \in {"placeholders", "plotted", "saved", "exit"}

\* The footprint-name, the displayed value and the combination that
\* footprint i resolves to; it resolves to one when _append_component does
\* not return at line 786.
NameOf(i)   == IF Walked(board[i], FALSE) THEN board[i].name ELSE board[i].name \o Back
ValueOf(i)  == DisplayedValue(board[i].ref, board[i].value)
Triple(i)   == << board[i].lib, NameOf(i), ValueOf(i) >>
Resolves(i) == filter(board[i].ref) /\ NameOf(i) # <<>>
HasArtwork(i) == HasModelFile(board[i].lib, NameOf(i))

\* The placement groups of footprint i in the component container.
GroupsOf(i) ==
    { k \in 1..Len(comp_cont) :
        comp_cont[k].kind = "g" /\ comp_cont[k].position = board[i].pos }
\* The loads of the artwork file for the combination t.
LoadsFor(t) ==
    { k \in 1..Len(loads) : loads[k] = [lib |-> t[1], name |-> t[2], value |-> t[3]] }
\* The footprints that resolve to the combination of footprint i.
SameAs(i) == { j \in 1..Len(board) : Resolves(j) /\ Triple(j) = Triple(i) }

\* C12: when two or more footprints resolve to one combination whose artwork
\* file exists, the render has loaded the file once for it, has appended one
\* placement group per footprint at the footprint's position, the first
\* holds the artwork body and every later one a use of that body's id.
C12_SameCombinationLoadedOnce ==
    ComponentsDone =>
        \A i \in 1..Len(board) :
            (Resolves(i) /\ HasArtwork(i) /\ Cardinality(SameAs(i)) >= 2) =>
                /\ Cardinality(LoadsFor(Triple(i))) = 1
                /\ \A j \in SameAs(i) : Cardinality(GroupsOf(j)) = 1
                /\ \E f \in SameAs(i) :
                      /\ \A j \in SameAs(i) : f <= j
                      /\ \A k \in GroupsOf(f) : comp_cont[k].child.tag = "g"
                      /\ \A j \in SameAs(i) \ {f} : \A k \in GroupsOf(j), kf \in GroupsOf(f) :
                            /\ comp_cont[k].child.tag = "use"
                            /\ comp_cont[k].child.href = <<"#">> \o comp_cont[kf].child.id

\* The id of the artwork that the group holds or refers to.
ArtworkIdOf(g) == IF g.child.tag = "g" THEN g.child.id ELSE Tail(g.child.href)

\* C13: two placed footprints have the same artwork id only if their
\* library, footprint-name and displayed value are pairwise equal.
C13_SharedEntryOnlyIfSameFields ==
    \A i, j \in 1..Len(board) :
        \A k \in GroupsOf(i), h \in GroupsOf(j) :
            ArtworkIdOf(comp_cont[k]) = ArtworkIdOf(comp_cont[h]) => Triple(i) = Triple(j)

\* The bands that the group shows: those of the body it holds or refers to.
ShownBands(g) ==
    IF g.child.tag = "g" THEN g.child.bands
    ELSE LET b == CHOOSE k \in 1..Len(comp_cont) :
                      comp_cont[k].kind = "g" /\ comp_cont[k].child.tag = "g"
                      /\ comp_cont[k].child.id = ArtworkIdOf(g)
         IN  comp_cont[b].child.bands

\* The four bands are there and filled with colours of the table.
Coloured(bands) == bands # <<>> /\ \A n \in 1..4 : bands[n] \notin {Absent, Original}

\* C14: every placed resistor whose bands are coloured shows the colours of
\* its value in reversed order if and only if the table marks its own
\* reference as flipped.
C14_FlipIsPerInstance ==
    \A i \in 1..Len(board) : \A k \in GroupsOf(i) :
        LET shown  == ShownBands(comp_cont[k])
            unflipped == apply_resistor_code(AllBands, <<>>, ValueOf(i)).bands
            flipped == InResistorValues(board[i].ref) /\ ResistorValueOf(board[i].ref).flip_bands
        IN  Coloured(shown) =>
                shown = (IF flipped THEN reverse(unflipped) ELSE unflipped)

\* "lib:name" as the warning of line 803 spells it.
TitleOf(i) == board[i].lib \o <<":">> \o NameOf(i)

\* C15: when the walks are over, every footprint without a resolvable
\* artwork file has produced its own "component" warning.
C15_NoArtworkAlwaysWarns ==
    ComponentsDone =>
        \A i \in 1..Len(board) :
            ~HasArtwork(i) =>
                Cardinality({ k \in 1..Len(warnings) :
                                warnings[k] = Warning("component", TitleOf(i)) })
                  >= Cardinality({ j \in 1..Len(board) :
                                ~HasArtwork(j) /\ TitleOf(j) = TitleOf(i) })

\* The footprints that pass the filter, and the placeholder markers drawn.
Passing == { i \in 1..Len(board) : filter(board[i].ref) }
Markers == { k \in 1..Len(comp_cont) : comp_cont[k].kind = "rect" }
PlanDone == cpc \in {"plotted", "saved", "exit"}

C17_RecolorNeverAborts ==
    /\ cpc \notin {"TypeError", "OverflowError", "KeyError"}
    /\ \A k \in 1..Len(comp_cont) :
          (comp_cont[k].child.tag = "g" /\ comp_cont[k].child.bands[1] # Absent) =>
              \/ Coloured(comp_cont[k].child.bands)
              \/ /\ \A n \in 1..4 : comp_cont[k].child.bands[n] \in {Absent, Original}
                 /\ \E w \in 1..Len(warnings) : warnings[w].tag = "resistor"

\* C18: an artwork that lacks a band after the first does not raise, and
\* every artwork read without an origin marker has given an "origin" warning.
C18_ArtworkErrorsAreWarnings ==
    /\ cpc # "AttributeError"
    /\ \A k \in 1..Len(loads) :
          get_model_file(loads[k].lib, loads[k].name).origin = <<>> =>
              \E w \in 1..Len(warnings) :
                  warnings[w] = Warning("origin", loads[k].lib \o <<":">> \o loads[k].name)

\* C25: warnings are never escalated during a render; with werror the plot
\* command fails after the render has completed, without saving any output,
\* whenever at least one warning was yielded during that render, and
\* without werror the output of a completed render is always saved.
C25_WerrorFailsOnAnyWarning ==
    /\ [](/\ cpc = "exit"  => options.werror /\ warnings # <<>>
          /\ cpc = "saved" => ~(options.werror /\ warnings # <<>>))
    /\ [][/\ cpc' = "exit" => cpc = "plotted"
          /\ cpc = "plotted" => cpc' \in {"exit", "saved"}]_vars


(***************************************************************************)
(*        PcbPlotter.execute_plot_plan  (src/pcbdraw/plot.py 1176-1212)    *)
(*                                                                         *)
(* The scratch areas are the directories tempfile.TemporaryDirectory has   *)
(* made and not yet removed.  The plot controller of pcbnew writes the     *)
(* file "<board>-<name>.svg" for OpenPlotfile(name, ...) and plots into    *)
(* the open file; a file name is a string, that is a sequence of           *)
(* characters.  The engine and a callback can raise: faults says at which  *)
(* action of the plan (0: nowhere).                                        *)
(***************************************************************************)
\* The most actions in a plot plan.
MaxActions == 2

\* The most executions of the plan, one after another.
MaxExecutions == 2

\* The plot file of OpenPlotfile(name, PLOT_FORMAT_SVG, name) (line 1203) for
\* the board file b.kicad_pcb.
PlotFile(name, layers, by) ==
    [file |-> <<"b", "-">> \o name \o <<".", "s", "v", "g">>, layers |-> layers, by |-> by]

\* The plans: at most MaxActions actions (PlotAction, lines 559-563) with
\* one of three names and none, one or two layers.
PlanInit ==
    /\ LET Names  == { <<"m", "a", "s", "k">>, <<"s", "i", "l", "k">>,
                       <<"p", "a", "d", "s", "-", "m", "a", "s", "k">> }
           Layers == { <<>>, <<"F.Mask">>, <<"F.Cu", "F.Mask">> }
           PlotAction == { [name |-> n, layers |-> l] : n \in Names, l \in Layers }
       IN  to_plot \in UNION { [1..n -> PlotAction] : n \in 0..MaxActions }
    /\ faults \in [engine : 0..MaxActions, callback : 0..MaxActions]
    /\ faults.engine <= Len(to_plot)
    /\ faults.callback <= Len(to_plot)
    /\ scratch = {}
    /\ tmp = None
    /\ files = {}
    /\ calls = <<>>
    /\ ai = 1
    /\ executions = 0
    /\ xpc = "start"
    /\ Idle("plan")

\* Lines 1181-1196: TemporaryDirectory() makes a directory that did not
\* exist (mkdtemp), empty, and the plot controller is set up.
EnterPlan ==
    /\ xpc \in {"start", "returned", "raised"}
    /\ executions < MaxExecutions
    /\ \E d \in (1..MaxExecutions) \ scratch :
          /\ tmp' = d
          /\ scratch' = scratch \cup {d}
    /\ files' = {}
    /\ calls' = <<>>
    /\ ai' = 1
    /\ executions' = executions + 1
    /\ xpc' = "plot"
    /\ UNCHANGED <<to_plot, faults>>
    /\ UNCHANGED <<stitchVars, transVars, posVars, compVars, resVars, viewerVars, guideVars, facadeVars>>

\* Lines 1197-1207: one action of the first loop.  OpenPlotfile makes the
\* file anew; the engine raises at the action faults.engine.
PlotLayers ==
    /\ xpc = "plot"
    /\ ai <= Len(to_plot)
    /\ IF Len(to_plot[ai].layers) = 0
       THEN /\ ai' = ai + 1
            /\ UNCHANGED <<files, xpc>>
       ELSE /\ files' = { f \in files : f.file # PlotFile(to_plot[ai].name, <<>>, ai).file }
                        \cup { PlotFile(to_plot[ai].name,
                                        IF faults.engine = ai THEN <<>>
                                        ELSE to_plot[ai].layers, ai) }
            /\ IF faults.engine = ai
               THEN xpc' = "raising" /\ UNCHANGED ai
               ELSE ai' = ai + 1 /\ UNCHANGED xpc
    /\ UNCHANGED <<to_plot, faults, scratch, tmp, calls, executions>>
    /\ UNCHANGED <<stitchVars, transVars, posVars, compVars, resVars, viewerVars, guideVars, facadeVars>>

\* Line 1208
ClosePlot ==
    /\ xpc = "plot"
    /\ ai > Len(to_plot)
    /\ ai' = 1
    /\ xpc' = "callbacks"
    /\ UNCHANGED <<to_plot, faults, scratch, tmp, files, calls, executions>>
    /\ UNCHANGED <<stitchVars, transVars, posVars, compVars, resVars, viewerVars, guideVars, facadeVars>>

\* Lines 1209-1212: one action of the second loop: its callback is called
\* for every file of the directory whose name ends with "-<name>.svg", in
\* the order os.listdir gives them (any order).  The callback of the action
\* faults.callback raises when it is called.
Callbacks ==
    /\ xpc = "callbacks"
    /\ ai <= Len(to_plot)
    /\ LET endswith(s, suffix) ==
               /\ Len(s) >= Len(suffix)
               /\ SubSeq(s, Len(s) - Len(suffix) + 1, Len(s)) = suffix
           found == { f \in files :
                        endswith(f.file, <<"-">> \o to_plot[ai].name \o <<".", "s", "v", "g">>) }
       IN  \E listdir \in [1..Cardinality(found) -> found] :
              /\ { listdir[k] : k \in 1..Cardinality(found) } = found
              /\ IF faults.callback = ai /\ found # {}
                 THEN /\ calls' = Append(calls, [action |-> ai, file |-> listdir[1]])
                      /\ xpc' = "raising"
                      /\ UNCHANGED ai
                 ELSE /\ calls' = calls \o [k \in 1..Cardinality(found) |->
                                              [action |-> ai, file |-> listdir[k]]]
                      /\ ai' = ai + 1
                      /\ UNCHANGED xpc
    /\ UNCHANGED <<to_plot, faults, scratch, tmp, files, executions>>
    /\ UNCHANGED <<stitchVars, transVars, posVars, compVars, resVars, viewerVars, guideVars, facadeVars>>

\* A directory that stays when the block is left by an exception.
cleanup_unless_raised(dirs, d, exc) == IF exc THEN dirs ELSE dirs \ {d}

\* TemporaryDirectory.__exit__(exc, ...): the directory and its files are
\* removed, whatever exc is.
cleanup(dirs, d, exc) == dirs \ {d}

\* Line 1181: the with block is left, by the end of the second loop or by an
\* exception.
ExitPlan ==
    /\ \/ xpc = "callbacks" /\ ai > Len(to_plot)
       \/ xpc = "raising"
    /\ scratch' = cleanup(scratch, tmp, xpc = "raising")
    /\ tmp' = None
    /\ files' = {}
    /\ xpc' = IF xpc = "raising" THEN "raised" ELSE "returned"
    /\ UNCHANGED <<to_plot, faults, calls, ai, executions>>
    /\ UNCHANGED <<stitchVars, transVars, posVars, compVars, resVars, viewerVars, guideVars, facadeVars>>

PlanSpec ==
    PlanInit /\ [][EnterPlan \/ PlotLayers \/ ClosePlot \/ Callbacks \/ ExitPlan]_vars

(***************************************************************************)
(*                  PROPERTIES OF execute_plot_plan                        *)
(***************************************************************************)
\* C21: every execution of a plot plan creates its own fresh scratch area,
\* and no scratch area exists once execute_plot_plan has returned or raised,
\* whether the engine or a callback raised; no scratch area is there for a
\* later plan to see.
C21_ScratchAreaIsFreshAndRemoved ==
    /\ [](/\ xpc \in {"start", "returned", "raised"} => scratch = {} /\ tmp = None
          /\ xpc \in {"plot", "callbacks", "raising"} => scratch = {tmp})
    /\ [][xpc # "plot" /\ xpc' = "plot" =>
            scratch = {} /\ tmp' \notin scratch /\ files' = {}]_vars

\* The second execution was left by an exception of a callback, the first
\* one by an exception too.
C21_Witness ==
    /\ xpc = "raised"
    /\ executions = 2
    /\ calls # <<>>
    /\ faults.callback # 0
    /\ scratch = {}

\* The calls of the callback of the action i.
CallsOf(i) == { k \in 1..Len(calls) : calls[k].action = i }

\* C22: for every plan, each action with a non-empty layer list has its
\* callback invoked exactly once, after the engine has plotted the layers of
\* the action, with the file plotted for the name of that action and of no
\* other action; the callbacks run in plan order.
C22_OneCallbackPerActionOnItsOwnFile ==
    /\ \A k \in 1..Len(calls) :
          /\ xpc \in {"callbacks", "raising", "returned", "raised"}
          /\ calls[k].file = PlotFile(to_plot[calls[k].action].name,
                                      to_plot[calls[k].action].layers, calls[k].action)
          /\ \A h \in 1..(k - 1) : calls[h].action <= calls[k].action
    /\ xpc = "returned" =>
          \A i \in 1..Len(to_plot) :
              Len(to_plot[i].layers) > 0 => Cardinality(CallsOf(i)) = 1


(***************************************************************************)
(*         RenderAction.execute  (src/pcbdraw/renderer.py 434-480)         *)
(*                                                                         *)
(* The 3D viewer answers the keys and clicks ViewerSession sends: the      *)
(* toggles flip a flag, "z" and "Shift+z" show a side, a click on a        *)
(* rotation button turns the board by 10 degrees.  rot counts the clicks   *)
(* around the axes x, y, z, modulo a full turn.                            *)
(***************************************************************************)
\* The most actions of renderPlans executed in one viewer session.
MaxRenders == 2

\* Clicks of a full turn: 360 / 10
FullTurn == 36

\* A viewer just opened by start3DViewer.
ViewerInit ==
    /\ viewer = [side |-> "front", axis |-> TRUE, orthographic |-> FALSE,
                 components |-> TRUE, raytracing |-> FALSE, rot |-> <<0, 0, 0>>]
    /\ plan = None
    /\ before = None
    /\ shots = <<>>
    /\ renders = 0
    /\ vpc = "ready"
    /\ Idle("viewer")

\* Lines 459-468: the side, the axis indicator, the rotations, the projection,
\* for a RenderAction (lines 434-452; __post_init__ lets only rotations
\* through that are multiples of 10).  _rotate(angle, plusButton,
\* minusButton) of lines 270-287, on the axis k: the plus button for a
\* positive angle, else the minus button, abs(angle // 10) times.
SetUpView ==
    /\ vpc \in {"ready", "returned"}
    /\ renders < MaxRenders
    /\ \E a \in [side : {"front", "back"}, components : BOOLEAN, raytraced : BOOLEAN,
                 orthographic : BOOLEAN, rotX : {0, 10}, rotY : {0}, rotZ : {0, 0 - 20},
                 postprocess : BOOLEAN] :
        LET _rotate(rot, k, angle) ==
              LET clicks == IF angle \div 10 < 0 THEN 0 - (angle \div 10) ELSE angle \div 10
              IN  [rot EXCEPT ![k] = IF angle > 0 THEN (@ + clicks) % FullTurn
                                     ELSE (@ + FullTurn - clicks) % FullTurn]
        IN
          /\ plan' = a
          /\ viewer' = [viewer EXCEPT
                !.side = a.side,
                !.axis = ~@,
                !.rot = _rotate(_rotate(_rotate(@, 1, a.rotX), 2, a.rotY), 3, a.rotZ),
                !.orthographic = IF a.orthographic THEN ~@ ELSE @]
    /\ before' = viewer
    /\ shots' = <<>>
    /\ renders' = renders + 1
    /\ vpc' = "capture"
    /\ UNCHANGED <<stitchVars, transVars, posVars, compVars, resVars, planVars, guideVars, facadeVars>>

\* Lines 469-474: captureRendered(withComponents=False) for the substrate
\* when there is a postprocess, then captureRaytraced or captureRendered;
\* each capture toggles the components before and after the screenshot when
\* it is taken without components, and captureRaytraced switches the
\* raytracing on and off again.
Capture ==
    /\ vpc = "capture"
    /\ LET screenshot(withComponents, raytraced) ==
               [viewer EXCEPT !.components = IF withComponents THEN @ ELSE ~@,
                              !.raytracing = IF raytraced THEN ~@ ELSE @]
       IN  shots' = (IF plan.postprocess THEN <<screenshot(FALSE, FALSE)>> ELSE <<>>)
                    \o <<screenshot(plan.components, plan.raytraced)>>
    /\ vpc' = "restore"
    /\ UNCHANGED <<viewer, plan, before, renders>>
    /\ UNCHANGED <<stitchVars, transVars, posVars, compVars, resVars, planVars, guideVars, facadeVars>>

\* Lines 475-480
RestoreView ==
    /\ vpc = "restore"
    /\ viewer' = [viewer EXCEPT !.axis = ~@,
                                !.orthographic = IF plan.orthographic THEN ~@ ELSE @]
    /\ vpc' = "returned"
    /\ UNCHANGED <<plan, before, shots, renders>>
    /\ UNCHANGED <<stitchVars, transVars, posVars, compVars, resVars, planVars, guideVars, facadeVars>>

ViewerSpec == ViewerInit /\ [][SetUpView \/ Capture \/ RestoreView]_vars

(***************************************************************************)
(*                  PROPERTIES OF RenderAction.execute                     *)
(***************************************************************************)
\* C26: after execute returns, for every action, the axis indicator, the
\* projection, the visibility of the components and the rotation of the
\* viewer are what they were before the call.
C26_ExecuteLeavesViewerIntact ==
    vpc = "returned" =>
        /\ viewer.axis = before.axis
        /\ viewer.orthographic = before.orthographic
        /\ viewer.components = before.components
        /\ viewer.rot = before.rot


(***************************************************************************)
(*        populate: Renderer  (src/pcbdraw/populate.py 66-169)             *)
(*                                                                         *)
(* Python lists are objects: heap[r] is the value of the list r, and a     *)
(* field that holds a list holds its reference r.  visited_components is   *)
(* the list given to the constructor and += extends it in place; every     *)
(* directive brings a list of its own (parse_pcbdraw).                     *)
(***************************************************************************)
\* The most calls of the renderer's methods while a document is parsed.
MaxEvents == 4

\* A copy that shares the lists of the step.
shallow_copy(h, step) == <<h, step>>

\* copy.deepcopy(step): the step with copies of its two lists, and the heap
\* that holds the copies.
deepcopy(h, step) ==
    <<h \o <<h[step.components], h[step.active_components]>>,
      [step EXCEPT !.components = Len(h) + 1, !.active_components = Len(h) + 2]>>

\* Lines 68-74: Tmp.__init__; the second list is the fresh [] of line 74.
GuideInit ==
    /\ initial_components \in {<<>>, <<"J1">>}
    /\ heap = <<initial_components, <<>>>>
    /\ visited_components = 1
    /\ active_components = 2
    /\ active_side = "front"
    /\ items = <<>>
    /\ current_item = [type |-> "None"]
    /\ directives = <<>>
    /\ recorded = <<>>
    /\ events = 0
    /\ gpc = "parsing"
    /\ Idle("guide")

\* Lines 104-108: a [[side|components]] directive.
pcbdraw ==
    /\ gpc = "parsing"
    /\ events < MaxEvents
    /\ \E side \in {"front", "back"}, components \in {<<>>, <<"R1">>, <<"R1", "C1">>} :
          /\ active_side' = side
          /\ heap' = [heap EXCEPT ![visited_components] = @ \o components] \o <<components>>
          /\ active_components' = Len(heap) + 1
          /\ directives' = Append(directives, [side |-> side, components |-> components])
    /\ events' = events + 1
    /\ UNCHANGED <<initial_components, visited_components, items, current_item, recorded, gpc>>
    /\ UNCHANGED <<stitchVars, transVars, posVars, compVars, resVars, planVars, viewerVars, facadeVars>>

\* Lines 150-158 with append_step (87-96): the step of a list item.
list_item ==
    /\ gpc = "parsing"
    /\ events < MaxEvents
    /\ \E text \in {"solder"} :
          LET step == [side |-> active_side, components |-> visited_components,
                       active_components |-> active_components, comment |-> text]
              copied == deepcopy(heap, step)
              flush == current_item.type # "None" /\ current_item.type = "comment"
              open  == IF current_item.type = "None" \/ current_item.type = "comment"
                       THEN [is_step |-> TRUE, type |-> "steps", steps |-> <<>>]
                       ELSE current_item
          IN  /\ heap' = copied[1]
              /\ items' = IF flush THEN Append(items, current_item) ELSE items
              /\ current_item' = [open EXCEPT !.steps = Append(@, copied[2])]
              /\ recorded' = Append(recorded,
                                    [item |-> Len(items') + 1, step |-> Len(open.steps) + 1,
                                     seen |-> Len(directives)])
    /\ events' = events + 1
    /\ UNCHANGED <<initial_components, visited_components, active_components, active_side,
                   directives, gpc>>
    /\ UNCHANGED <<stitchVars, transVars, posVars, compVars, resVars, planVars, viewerVars, facadeVars>>

\* Lines 76-85: the html of a paragraph, heading, code block, quote, table
\* or rule (lines 110-145, 160-168).
append_comment ==
    /\ gpc = "parsing"
    /\ events < MaxEvents
    /\ \E html \in {"p"} :
          LET flush == current_item.type # "None" /\ current_item.type = "steps"
              open  == IF current_item.type = "None" \/ current_item.type = "steps"
                       THEN [is_comment |-> TRUE, type |-> "comment", content |-> <<>>]
                       ELSE current_item
          IN  /\ items' = IF flush THEN Append(items, current_item) ELSE items
              /\ current_item' = [open EXCEPT !.content = Append(@, html)]
    /\ events' = events + 1
    /\ UNCHANGED <<initial_components, heap, visited_components, active_components,
                   active_side, directives, recorded, gpc>>
    /\ UNCHANGED <<stitchVars, transVars, posVars, compVars, resVars, planVars, viewerVars, facadeVars>>

\* Lines 98-102, called by parse_content when the document is parsed.
output ==
    /\ gpc = "parsing"
    /\ items' = IF current_item.type # "None" THEN Append(items, current_item) ELSE items
    /\ gpc' = "done"
    /\ UNCHANGED <<initial_components, heap, visited_components, active_components,
                   active_side, current_item, directives, recorded, events>>
    /\ UNCHANGED <<stitchVars, transVars, posVars, compVars, resVars, planVars, viewerVars, facadeVars>>

GuideSpec == GuideInit /\ [][pcbdraw \/ list_item \/ append_comment \/ output]_vars

(***************************************************************************)
(*                     PROPERTIES OF THE GUIDE STEPS                       *)
(***************************************************************************)
\* The components of the first n directives, after the initial ones.
RECURSIVE VisitedAfter(_)
VisitedAfter(n) ==
    IF n = 0 THEN initial_components
    ELSE VisitedAfter(n - 1) \o directives[n].components

\* The step recorded as r, as it is now.
StepAt(r) ==
    IF r.item <= Len(items) THEN items[r.item].steps[r.step]
    ELSE current_item.steps[r.step]

\* C30: the step recorded for a list item holds, as components, the initial
\* components followed by the lists of all the directives seen until the
\* item, as active_components the list of the most recent directive and as
\* side the side of the most recent directive; directives that come later
\* never change a recorded step.
C30_RecordedStepsAreSnapshots ==
    \A k \in 1..Len(recorded) :
        LET seen == recorded[k].seen
            step == StepAt(recorded[k])
        IN  /\ heap[step.components] = VisitedAfter(seen)
            /\ heap[step.active_components] =
                   IF seen = 0 THEN <<>> ELSE directives[seen].components
            /\ step.side = IF seen = 0 THEN "front" ELSE directives[seen].side

\* A step recorded after one directive, and a later directive with
\* components of its own and the other side.
C30_Witness ==
    /\ gpc = "done"
    /\ Len(directives) = 2
    /\ directives[1].components # <<>>
    /\ directives[2].components # <<>>
    /\ directives[1].side # directives[2].side
    /\ \E k \in 1..Len(recorded) : recorded[k].seen = 1


(***************************************************************************)
(*             PcbPlotter.plot  (src/pcbdraw/plot.py 1034-1046)            *)
(*                                                                         *)
(* An element is [tag, id, ids, children]: ids are the id attributes found *)
(* in a fragment read from a file, an id is a string, that is a sequence   *)
(* of characters.  A plotter of the plan reads one fragment with a prefix  *)
(* of its own and appends it to a container of the document, as            *)
(* PlotPaste and PlotVCuts do for the board container, PlotComponents for  *)
(* the component and the highlight containers and _process_mask for the    *)
(* definitions.  The title and the description of empty_svg are left out.  *)
(***************************************************************************)
\* The most plotters of a plan whose fragments are arbitrary.
MaxPlotters == 2

\* The plotters of a long plan, of which only the first and one other read a
\* fragment with ids.
MaxLoads == 10

\* The most calls of plot() on one PcbPlotter.
MaxPlots == 2

\* Lines 337-354: the element read from a file whose elements have the id
\* attributes ids, every id with the prefix before it.
read_svg_unique2(ids, pref) ==
    [tag |-> "path", id |-> "", ids |-> { pref \o i : i \in ids }, children |-> <<>>]

\* A pruning that removes nothing.
keep_elems(tree) == tree

RECURSIVE remove_empty_elems(_)
\* Lines 509-520: the tree without its empty groups and defs, at any depth.
remove_empty_elems(tree) ==
    LET pruned == [k \in 1..Len(tree.children) |-> remove_empty_elems(tree.children[k])]
    IN  [tree EXCEPT !.children =
            SelectSeq(pruned, LAMBDA el : ~(el.tag \in {"g", "defs"} /\ Len(el.children) = 0))]

\* Lines 991-1016: PcbPlotter.__init__, then the style and the plan are set.
\* The plans: at most MaxPlotters plotters of any fragment into any
\* container, or MaxLoads plotters into the board container.
FacadeInit ==
    /\ style \in [highlight_on_top : BOOLEAN]
    /\ LET Ids == { {}, {<<"a">>}, {<<"0", "a">>} }
           Plotters == [into : {"defs", "board", "component", "highlight"}, ids : Ids]
           Long(first, at, other) ==
               [k \in 1..MaxLoads |->
                   [into |-> "board",
                    ids |-> IF k = 1 THEN first ELSE IF k = at THEN other ELSE {}]]
       IN  plot_plan \in
             UNION { [1..n -> Plotters] : n \in 0..MaxPlotters }
             \cup { Long(f, at, o) : f \in Ids \ {{}}, at \in 2..MaxLoads, o \in Ids \ {{}} }
    /\ _unique_counter = 1
    /\ document = None
    /\ loaded = <<>>
    /\ returned = <<>>
    /\ fi = 1
    /\ plots = 0
    /\ fpc = "ready"
    /\ Idle("facade")

\* Lines 1038-1039 with _setup_document (1276-1307): a new document with the
\* definitions and the three containers.
SetupDocument ==
    /\ fpc \in {"ready", "returned"}
    /\ plots < MaxPlots
    /\ LET g(id) == [tag |-> "g", id |-> id, ids |-> {}, children |-> <<>>]
       IN  document' =
             [tag |-> "svg", id |-> "", ids |-> {},
              children |->
                 <<[tag |-> "defs", id |-> "", ids |-> {}, children |-> <<>>],
                   g("boardContainer")>>
                 \o (IF style.highlight_on_top
                     THEN <<g("componentContainer"), g("highlightContainer")>>
                     ELSE <<g("highlightContainer"), g("componentContainer")>>)]
    /\ loaded' = <<>>
    /\ fi' = 1
    /\ plots' = plots + 1
    /\ fpc' = "render"
    /\ UNCHANGED <<style, plot_plan, _unique_counter, returned>>
    /\ UNCHANGED <<stitchVars, transVars, posVars, compVars, resVars, planVars, viewerVars, guideVars>>

\* Lines 1040-1041: the render of one plotter: it takes a prefix
\* (unique_prefix, lines 1134-1137), reads its fragment and appends it
\* (get_def_slot, append_board_element, append_component_element,
\* append_highlight_element, lines 1075-1097).
Render ==
    /\ fpc = "render"
    /\ fi <= Len(plot_plan)
    /\ LET pref == <<"p", "r", "e", "f", "_">> \o str(_unique_counter)
           element == read_svg_unique2(plot_plan[fi].ids, pref)
           cont == CASE plot_plan[fi].into = "defs" -> 1
                     [] plot_plan[fi].into = "board" -> 2
                     [] plot_plan[fi].into = "component" ->
                            IF style.highlight_on_top THEN 3 ELSE 4
                     [] plot_plan[fi].into = "highlight" ->
                            IF style.highlight_on_top THEN 4 ELSE 3
       IN  /\ document' = [document EXCEPT !.children[cont].children = Append(@, element)]
           /\ loaded' = Append(loaded, element.ids)
    /\ _unique_counter' = _unique_counter + 1
    /\ fi' = fi + 1
    /\ UNCHANGED <<style, plot_plan, returned, plots, fpc>>
    /\ UNCHANGED <<stitchVars, transVars, posVars, compVars, resVars, planVars, viewerVars, guideVars>>

\* Lines 1042-1045: the document is pruned and returned.
ReturnDocument ==
    /\ fpc = "render"
    /\ fi > Len(plot_plan)
    /\ document' = remove_empty_elems(document)
    /\ returned' = Append(returned, document')
    /\ fpc' = "returned"
    /\ UNCHANGED <<style, plot_plan, _unique_counter, loaded, fi, plots>>
    /\ UNCHANGED <<stitchVars, transVars, posVars, compVars, resVars, planVars, viewerVars, guideVars>>

FacadeSpec == FacadeInit /\ [][SetupDocument \/ Render \/ ReturnDocument]_vars

(***************************************************************************)
(*                     PROPERTIES OF PcbPlotter.plot                       *)
(***************************************************************************)
\* The ids of the top-level groups of the document, in document order.
TopLevelGroups ==
    LET groups == SelectSeq(document.children, LAMBDA el : el.tag = "g")
    IN  [k \in 1..Len(groups) |-> groups[k].id]

C24_SecondPlotEqualsFirst ==
    /\ fpc = "render" /\ fi = 1 =>
          \A k \in 1..Len(document.children) : document.children[k].children = <<>>
    /\ Len(returned) = 2 => returned[1] = returned[2]

\* C27: the prefixed ids of different loads of one plot() never collide.
C27_PrefixedIdsNeverCollide ==
    \A i, j \in 1..Len(loaded) : i # j => loaded[i] \cap loaded[j] = {}

=============================================================================
